---- MODULE Spec2Model ----
(***************************************************************************)
(* Pending-operation reconciliation of ComfyUI-Nuvu: pre_launch.py (run    *)
(* from the launcher before the host) and prestartup_script.py (run by the *)
(* host while it starts).  A pass drains the pending-uninstall markers,    *)
(* drains the pending-install markers, enforces the critical packages and  *)
(* verifies the host's requirements list.                                  *)
(*                                                                         *)
(* Python strings are sequences of one-character strings, so that strip,   *)
(* split, replace, lower and the regular expressions of the source are     *)
(* computed rather than assumed.  A value held in the state is the string  *)
(* itself; the table Lit, held in the variable chars, gives its characters *)
(* and Str the string of a character sequence.                             *)
(***************************************************************************)
EXTENDS Integers, Sequences, FiniteSets, TLC

\* <Lit>
Lit ==
  ("" :> <<>>) @@
  ("-" :> <<"-">>) @@
  ("_" :> <<"_">>) @@
  ("." :> <<".">>) @@
  (".dist-info" :> <<".","d","i","s","t","-","i","n","f","o">>) @@
  ("huggingface_hub" :> <<"h","u","g","g","i","n","g","f","a","c","e","_","h","u","b">>) @@
  ("Pillow" :> <<"P","i","l","l","o","w">>) @@
  ("pillow" :> <<"p","i","l","l","o","w">>) @@
  ("huggingface_hub<1.0" :> <<"h","u","g","g","i","n","g","f","a","c","e","_","h","u","b","<","1",".","0">>) @@
  ("<1.0" :> <<"<","1",".","0">>) @@
  ("huggingface_hub-0.34.0.dist-info" :> <<"h","u","g","g","i","n","g","f","a","c","e","_","h","u","b","-","0",".","3","4",".","0",".","d","i","s","t","-","i","n","f","o">>) @@
  ("huggingface_hub-1.2.0.dist-info" :> <<"h","u","g","g","i","n","g","f","a","c","e","_","h","u","b","-","1",".","2",".","0",".","d","i","s","t","-","i","n","f","o">>) @@
  ("pillow-10.0.0.dist-info" :> <<"p","i","l","l","o","w","-","1","0",".","0",".","0",".","d","i","s","t","-","i","n","f","o">>) @@
  ("PIL" :> <<"P","I","L">>) @@
  ("0.34.0" :> <<"0",".","3","4",".","0">>) @@
  ("1.2.0" :> <<"1",".","2",".","0">>) @@
  ("10.0.0" :> <<"1","0",".","0",".","0">>) @@
  ("1.0" :> <<"1",".","0">>) @@
  ("foo-bar" :> <<"f","o","o","-","b","a","r">>) @@
  ("foo.bar" :> <<"f","o","o",".","b","a","r">>) @@
  ("Pillow-9.5.0.dist-info" :> <<"P","i","l","l","o","w","-","9",".","5",".","0",".","d","i","s","t","-","i","n","f","o">>) @@
  ("foo_bar-2.1.dist-info" :> <<"f","o","o","_","b","a","r","-","2",".","1",".","d","i","s","t","-","i","n","f","o">>) @@
  ("foo.bar-1.0.dist-info" :> <<"f","o","o",".","b","a","r","-","1",".","0",".","d","i","s","t","-","i","n","f","o">>) @@
  ("foo_barbaz-1.0.dist-info" :> <<"f","o","o","_","b","a","r","b","a","z","-","1",".","0",".","d","i","s","t","-","i","n","f","o">>) @@
  (".txt" :> <<".","t","x","t">>) @@
  ("triton.txt" :> <<"t","r","i","t","o","n",".","t","x","t">>) @@
  ("sageattention.txt" :> <<"s","a","g","e","a","t","t","e","n","t","i","o","n",".","t","x","t">>) @@
  ("triton" :> <<"t","r","i","t","o","n">>) @@
  ("sageattention" :> <<"s","a","g","e","a","t","t","e","n","t","i","o","n">>) @@
  ("triton\nsageattention" :> <<"t","r","i","t","o","n","\n","s","a","g","e","a","t","t","e","n","t","i","o","n">>) @@
  ("pkgA" :> <<"p","k","g","A">>) @@
  ("numpy" :> <<"n","u","m","p","y">>) @@
  ("triton-3.0.0.dist-info" :> <<"t","r","i","t","o","n","-","3",".","0",".","0",".","d","i","s","t","-","i","n","f","o">>) @@
  ("sageattention-1.0.6.dist-info" :> <<"s","a","g","e","a","t","t","e","n","t","i","o","n","-","1",".","0",".","6",".","d","i","s","t","-","i","n","f","o">>) @@
  ("pkgA-1.0.dist-info" :> <<"p","k","g","A","-","1",".","0",".","d","i","s","t","-","i","n","f","o">>) @@
  ("pkgA-2.0.dist-info" :> <<"p","k","g","A","-","2",".","0",".","d","i","s","t","-","i","n","f","o">>) @@
  ("numpy-1.23.0.dist-info" :> <<"n","u","m","p","y","-","1",".","2","3",".","0",".","d","i","s","t","-","i","n","f","o">>) @@
  ("numpy-1.26.0.dist-info" :> <<"n","u","m","p","y","-","1",".","2","6",".","0",".","d","i","s","t","-","i","n","f","o">>) @@
  ("3.0.0" :> <<"3",".","0",".","0">>) @@
  ("1.0.6" :> <<"1",".","0",".","6">>) @@
  ("2.0" :> <<"2",".","0">>) @@
  ("1.23.0" :> <<"1",".","2","3",".","0">>) @@
  ("1.26.0" :> <<"1",".","2","6",".","0">>) @@
  ("pkgA.txt" :> <<"p","k","g","A",".","t","x","t">>) @@
  ("nodeB.txt" :> <<"n","o","d","e","B",".","t","x","t">>) @@
  ("pkgA==2.0" :> <<"p","k","g","A","=","=","2",".","0">>) @@
  ("--force-reinstall pkgA==2.0 --index-url https://idx" :> <<"-","-","f","o","r","c","e","-","r","e","i","n","s","t","a","l","l"," ","p","k","g","A","=","=","2",".","0"," ","-","-","i","n","d","e","x","-","u","r","l"," ","h","t","t","p","s",":","/","/","i","d","x">>) @@
  ("pkgA==\"2.0" :> <<"p","k","g","A","=","=","\"","2",".","0">>) @@
  ("--upgrade" :> <<"-","-","u","p","g","r","a","d","e">>) @@
  ("--force-reinstall" :> <<"-","-","f","o","r","c","e","-","r","e","i","n","s","t","a","l","l">>) @@
  ("--reinstall" :> <<"-","-","r","e","i","n","s","t","a","l","l">>) @@
  ("--index-url" :> <<"-","-","i","n","d","e","x","-","u","r","l">>) @@
  ("--extra-index-url" :> <<"-","-","e","x","t","r","a","-","i","n","d","e","x","-","u","r","l">>) @@
  ("--find-links" :> <<"-","-","f","i","n","d","-","l","i","n","k","s">>) @@
  ("-f" :> <<"-","f">>) @@
  ("https://idx" :> <<"h","t","t","p","s",":","/","/","i","d","x">>) @@
  ("numpy>=1.24.0" :> <<"n","u","m","p","y",">","=","1",".","2","4",".","0">>) @@
  ("# core" :> <<"#"," ","c","o","r","e">>) @@
  ("--extra-index-url https://idx" :> <<"-","-","e","x","t","r","a","-","i","n","d","e","x","-","u","r","l"," ","h","t","t","p","s",":","/","/","i","d","x">>) @@
  (">=1.24.0" :> <<">","=","1",".","2","4",".","0">>) @@
  ("1.24.0" :> <<"1",".","2","4",".","0">>) @@
  ("-f https://idx pkgA==2.0" :> <<"-","f"," ","h","t","t","p","s",":","/","/","i","d","x"," ","p","k","g","A","=","=","2",".","0">>) @@
  ("ruamel.yaml" :> <<"r","u","a","m","e","l",".","y","a","m","l">>) @@
  ("Foo_bar-2" :> <<"F","o","o","_","b","a","r","-","2">>) @@
  ("[extra]" :> <<"[","e","x","t","r","a","]">>) @@
  ("==2.0" :> <<"=","=","2",".","0">>) @@
  ("  " :> <<" "," ">>) @@
  (" " :> <<" ">>) @@
  ("; platform_system == 'Windows'" :> <<";"," ","p","l","a","t","f","o","r","m","_","s","y","s","t","e","m"," ","=","="," ","'","W","i","n","d","o","w","s","'">>) @@
  ("# comment" :> <<"#"," ","c","o","m","m","e","n","t">>) @@
  ("-e git+https://host/repo" :> <<"-","e"," ","g","i","t","+","h","t","t","p","s",":","/","/","h","o","s","t","/","r","e","p","o">>) @@
  ("pkg @ https://host/pkg.whl" :> <<"p","k","g"," ","@"," ","h","t","t","p","s",":","/","/","h","o","s","t","/","p","k","g",".","w","h","l">>) @@
  ("   " :> <<" "," "," ">>) @@
  ("foo_bar" :> <<"f","o","o","_","b","a","r">>) @@
  ("foo_bar_2.1.dist_info" :> <<"f","o","o","_","b","a","r","_","2",".","1",".","d","i","s","t","_","i","n","f","o">>) @@
  ("Foo_Bar-2.1.egg-info" :> <<"F","o","o","_","B","a","r","-","2",".","1",".","e","g","g","-","i","n","f","o">>) @@
  ("foo_barbaz" :> <<"f","o","o","_","b","a","r","b","a","z">>) @@
  ("Foo_Bar" :> <<"F","o","o","_","B","a","r">>) @@
  ("1" :> <<"1">>) @@
  ("2.x" :> <<"2",".","x">>) @@
  ("1.x" :> <<"1",".","x">>) @@
  ("<" :> <<"<">>) @@
  ("<=" :> <<"<","=">>) @@
  (">" :> <<">">>) @@
  (">=" :> <<">","=">>) @@
  ("==" :> <<"=","=">>) @@
  ("!=" :> <<"!","=">>) @@
  ("=>" :> <<"=",">">>) @@
  ("foo" :> <<"f","o","o">>) @@
  ("foo-2bar" :> <<"f","o","o","-","2","b","a","r">>) @@
  ("foo-1.0.dist-info" :> <<"f","o","o","-","1",".","0",".","d","i","s","t","-","i","n","f","o">>) @@
  ("foo_2bar" :> <<"f","o","o","_","2","b","a","r">>) @@
  ("foo_2bar-1.0.dist-info" :> <<"f","o","o","_","2","b","a","r","-","1",".","0",".","d","i","s","t","-","i","n","f","o">>) @@
  ("comfyui_nuvu-" :> <<"c","o","m","f","y","u","i","_","n","u","v","u","-">>) @@
  ("comfyui_nuvu-1.0.dist-info" :> <<"c","o","m","f","y","u","i","_","n","u","v","u","-","1",".","0",".","d","i","s","t","-","i","n","f","o">>) @@
  ("comfyui_nuvu-1.1.dist-info" :> <<"c","o","m","f","y","u","i","_","n","u","v","u","-","1",".","1",".","d","i","s","t","-","i","n","f","o">>) @@
  ("comfyui_nuvu" :> <<"c","o","m","f","y","u","i","_","n","u","v","u">>)
\* </Lit>


---------------------------------------------------------------------------
(* Python str and re primitives used by the scripts *)

UpperToLower ==
  ("A" :> "a") @@ ("B" :> "b") @@ ("C" :> "c") @@ ("D" :> "d") @@ ("E" :> "e") @@
  ("F" :> "f") @@ ("G" :> "g") @@ ("H" :> "h") @@ ("I" :> "i") @@ ("J" :> "j") @@
  ("K" :> "k") @@ ("L" :> "l") @@ ("M" :> "m") @@ ("N" :> "n") @@ ("O" :> "o") @@
  ("P" :> "p") @@ ("Q" :> "q") @@ ("R" :> "r") @@ ("S" :> "s") @@ ("T" :> "t") @@
  ("U" :> "u") @@ ("V" :> "v") @@ ("W" :> "w") @@ ("X" :> "x") @@ ("Y" :> "y") @@
  ("Z" :> "z")

DigitVal ==
  ("0" :> 0) @@ ("1" :> 1) @@ ("2" :> 2) @@ ("3" :> 3) @@ ("4" :> 4) @@
  ("5" :> 5) @@ ("6" :> 6) @@ ("7" :> 7) @@ ("8" :> 8) @@ ("9" :> 9)

IsDigit(c) == c \in DOMAIN DigitVal

\* str.lower()
Lower(s) == [i \in 1..Len(s) |-> IF s[i] \in DOMAIN UpperToLower THEN UpperToLower[s[i]] ELSE s[i]]

\* str.replace(a, b) for one-character a and b
Replace(s, a, b) == [i \in 1..Len(s) |-> IF s[i] = a THEN b ELSE s[i]]

\* str.startswith / str.endswith / the `in` operator on strings
StartsWith(s, p) == Len(p) <= Len(s) /\ SubSeq(s, 1, Len(p)) = p
EndsWith(s, p) == Len(p) <= Len(s) /\ SubSeq(s, Len(s) - Len(p) + 1, Len(s)) = p
Contains(s, p) == \E i \in 1..(Len(s) - Len(p) + 1) : SubSeq(s, i, i + Len(p) - 1) = p

\* index of the first / last character of s that is in cset, 0 when there is none
FirstIndexIn(s, cset) ==
  IF \E i \in 1..Len(s) : s[i] \in cset
  THEN CHOOSE i \in 1..Len(s) : s[i] \in cset /\ \A j \in 1..(i - 1) : s[j] \notin cset
  ELSE 0
LastIndexIn(s, cset) ==
  IF \E i \in 1..Len(s) : s[i] \in cset
  THEN CHOOSE i \in 1..Len(s) : s[i] \in cset /\ \A j \in (i + 1)..Len(s) : s[j] \notin cset
  ELSE 0

\* str.split(c): the pieces of s between the occurrences of the character c
RECURSIVE Split(_, _)
Split(s, c) ==
  LET i == FirstIndexIn(s, {c})
  IN  IF i = 0 THEN <<s>>
      ELSE <<SubSeq(s, 1, i - 1)>> \o Split(SubSeq(s, i + 1, Len(s)), c)

\* str.rsplit(c, 1)[0]
RSplit1Head(s, c) ==
  LET i == LastIndexIn(s, {c})
  IN  IF i = 0 THEN s ELSE SubSeq(s, 1, i - 1)

\* int() of a string of decimal digits
RECURSIVE ToInt(_)
ToInt(ds) ==
  IF Len(ds) = 0 THEN 0
  ELSE ToInt(SubSeq(ds, 1, Len(ds) - 1)) * 10 + DigitVal[ds[Len(ds)]]

\* Python's ordering of tuples of integers (lexicographic, a proper prefix is less)
TupleLt(a, b) ==
  \E k \in 0..Len(a) :
     /\ k <= Len(b)
     /\ \A j \in 1..k : a[j] = b[j]
     /\ \/ k = Len(a) /\ k < Len(b)
        \/ k < Len(a) /\ k < Len(b) /\ a[k + 1] < b[k + 1]

OpChars == {"<", ">", "=", "!"}

\* str.strip(): s without its leading and trailing whitespace
Whitespace == {" ", "\n", "\t", "\r"}
Strip(s) ==
  IF \A i \in 1..Len(s) : s[i] \in Whitespace THEN <<>>
  ELSE LET a == CHOOSE i \in 1..Len(s) :
                  s[i] \notin Whitespace /\ \A j \in 1..(i - 1) : s[j] \in Whitespace
           b == CHOOSE i \in 1..Len(s) :
                  s[i] \notin Whitespace /\ \A j \in (i + 1)..Len(s) : s[j] \in Whitespace
       IN  SubSeq(s, a, b)

\* the elements of a sequence as a set
Range(seq) == {seq[i] : i \in 1..Len(seq)}

\* the element of a set of one element
The(set) == CHOOSE x \in set : TRUE

---------------------------------------------------------------------------
VARIABLES
  call,               \* the function applied in a function-level specification, with its arguments
  ret,                \* its result
  script,             \* the script running the pass: "pre_launch", "prestartup", or "none"
  pc,                 \* the position of the pass
  passes,             \* number of passes started
  pending_uninstalls, \* .nuvu/pending_uninstalls: file name -> text, NoFile when absent
  pending_installs,   \* .nuvu/pending_installs: file name -> text, NoFile when absent
  site,               \* the directory entries of site-packages
  uv,                 \* whether a uv executable is found
  queue,              \* the snapshot a stage iterates over, what is left of it
  log,                \* the package-manager commands and forced deletions of the pass, in order
  entered,            \* the stages the pass has entered
  faults,             \* number of commands that have failed or timed out
  raised,             \* the exception that left a stage, "none" when there is none
  hostError,          \* an exception has escaped the pass into the host
  stale,              \* the repositories whose requirements.txt is to be installed
  chars,              \* the characters of each string the scripts handle
  old_triton_marker,  \* the text of .nuvu/pending_triton_uninstall, NoFile when absent
  previous,           \* the script of the pass before this one, "none" in the first
  _uv_cmd,            \* pre_launch._uv_cmd: the uv found by the first resolution, None for none
  _uv_is_standalone,  \* pre_launch._uv_is_standalone
  _uv_checked,        \* pre_launch._uv_checked: a resolution has been made
  uv_exes             \* the places where a uv executable exists

resolverVars == <<_uv_cmd, _uv_is_standalone, _uv_checked, uv_exes>>

vars == <<call, ret, script, pc, passes, pending_uninstalls, pending_installs, site, uv,
          queue, log, entered, faults, raised, hostError, stale, chars, old_triton_marker,
          previous, resolverVars>>

engineVars == <<script, pc, passes, pending_uninstalls, pending_installs, site, uv,
                queue, log, entered, faults, raised, hostError, stale, chars,
                old_triton_marker, previous>>

\* the string of a sequence of characters
Str(cs) == CHOOSE s \in DOMAIN chars : chars[s] = cs

NoFile == "<no file>"

\* the values of the engine's variables in a function-level specification
EngineUnused ==
  /\ script = "none" /\ pc = "unused" /\ passes = 0
  /\ pending_uninstalls = <<>> /\ pending_installs = <<>>
  /\ site = {} /\ uv = FALSE /\ queue = <<>> /\ log = <<>> /\ entered = {}
  /\ faults = 0 /\ raised = "none" /\ hostError = FALSE /\ stale = {}
  /\ chars = Lit /\ old_triton_marker = NoFile /\ previous = "none"

\* no uv, and the values of pre_launch's globals when the module is loaded
None == "None"
ResolverUnused ==
  /\ _uv_cmd = None /\ _uv_is_standalone = FALSE /\ _uv_checked = FALSE /\ uv_exes = {}

NotCalled == [done |-> FALSE]
Returned(v) == [done |-> TRUE, value |-> v]

---------------------------------------------------------------------------
(* prestartup_script._has_conflicting_versions, over the entries os.listdir *)
(* returns for the package directories                                      *)

\* dist_name of an entry ending in .dist-info
DistName(item) ==
  IF Contains(item, chars["-"]) THEN RSplit1Head(item, "-")
  ELSE SubSeq(item, 1, Len(item) - 10)

_has_conflicting_versions(pip_name, listing) ==
  LET normalized_name == Lower(Replace(chars[pip_name], "-", "_"))
      total_dist_infos ==
        Cardinality({item \in listing :
           /\ EndsWith(chars[item], chars[".dist-info"])
           /\ Lower(Replace(DistName(chars[item]), "-", "_")) = normalized_name})
  IN  total_dist_infos > 1

(* Function-level specification: _has_conflicting_versions applied to a package *)
(* name and a directory listing                                                 *)
ConflictNames == {"huggingface_hub", "Pillow", "foo-bar", "foo.bar"}
ConflictEntries ==
  {"huggingface_hub", "huggingface_hub-0.34.0.dist-info", "huggingface_hub-1.2.0.dist-info",
   "pillow-10.0.0.dist-info", "Pillow-9.5.0.dist-info",
   "foo_bar-2.1.dist-info", "foo.bar-1.0.dist-info", "foo_barbaz-1.0.dist-info"}

ConflictInit ==
  /\ call \in [fn : {"_has_conflicting_versions"}, pip_name : ConflictNames,
                listing : SUBSET ConflictEntries]
  /\ ret = NotCalled
  /\ EngineUnused
  /\ ResolverUnused

CallHasConflictingVersions ==
  /\ call.fn = "_has_conflicting_versions"
  /\ ~ret.done
  /\ ret' = Returned(_has_conflicting_versions(call.pip_name, call.listing))
  /\ UNCHANGED <<call, engineVars, resolverVars>>

ConflictNext == CallHasConflictingVersions

SpecConflict == ConflictInit /\ [][ConflictNext]_vars


---------------------------------------------------------------------------
(* The installation the scripts act on: site-packages as pip and            *)
(* importlib.metadata see it.  A package is installed when a metadata       *)
(* directory <name>-<version>.dist-info of it exists.                       *)

DistInfos ==
  {"triton-3.0.0.dist-info", "sageattention-1.0.6.dist-info",
   "pkgA-1.0.dist-info", "pkgA-2.0.dist-info", "pillow-10.0.0.dist-info",
   "huggingface_hub-0.34.0.dist-info", "huggingface_hub-1.2.0.dist-info",
   "numpy-1.23.0.dist-info", "numpy-1.26.0.dist-info"}

\* the importable directory a distribution installs
ModuleDir ==
  ("triton" :> "triton") @@ ("sageattention" :> "sageattention") @@ ("pkgA" :> "pkgA") @@
  ("pillow" :> "PIL") @@ ("huggingface_hub" :> "huggingface_hub") @@ ("numpy" :> "numpy")

IsDistInfo(item) == EndsWith(chars[item], chars[".dist-info"])
\* name and version of the metadata directory <name>-<version>.dist-info
DistPackage(item) == RSplit1Head(SubSeq(chars[item], 1, Len(chars[item]) - 10), "-")
DistVersion(item) ==
  LET stem == SubSeq(chars[item], 1, Len(chars[item]) - 10)
  IN  Str(SubSeq(stem, LastIndexIn(stem, {"-"}) + 1, Len(stem)))

\* the package manager's comparison of project names: case and the separators
\* - _ . do not distinguish them
ProjectName(s) == Replace(Replace(Lower(s), "-", "_"), ".", "_")
SameProject(a, b) == ProjectName(a) = ProjectName(b)

\* the metadata directories of the project `name` among the entries s
DistsOf(name, s) == {d \in s : IsDistInfo(d) /\ SameProject(DistPackage(d), chars[name])}

\* `pip show name` exits 0
PipShow(name, s) == DistsOf(name, s) # {}

\* everything the project `name` has installed among the entries s
OwnedBy(name, s) ==
  DistsOf(name, s) \cup
  {e \in s : \E p \in DOMAIN ModuleDir : SameProject(chars[p], chars[name]) /\ e = ModuleDir[p]}

\* a successful `pip uninstall -y names`
Uninstalled(names, s) == s \ UNION {OwnedBy(names[i], s) : i \in 1..Len(names)}

\* a requirement argument the package manager accepts as a project name
NameChars ==
  DOMAIN UpperToLower \cup {UpperToLower[c] : c \in DOMAIN UpperToLower}
    \cup DOMAIN DigitVal \cup {"-", "_", "."}
ValidName(arg) == chars[arg] # <<>> /\ \A i \in 1..Len(chars[arg]) : chars[arg][i] \in NameChars

\* one entry of the log
Op(stage, op, backend, args, marker, res) ==
  [stage |-> stage, op |-> op, backend |-> backend, args |-> args, marker |-> marker,
   res |-> res]

\* How a command ends: exit 0, a non-zero exit whose output names a file lock
\* ("lock") or a missing RECORD file ("record"), any other non-zero exit ("error"),
\* or the timeout of subprocess.run.
Failures == {"lock", "record", "timeout"}
MaxFaults == 1
Results(f) == IF f < MaxFaults THEN {"ok"} \cup Failures ELSE {"ok"}

---------------------------------------------------------------------------
(* _force_delete_package / force_delete_package: rm says whether             *)
(* shutil.rmtree(ignore_errors=True) manages to remove what it is given      *)

\* a match of every entry the package name is a prefix of
IsMetadataOf_prefix_only(pkg_normalized, item_lower) ==
  StartsWith(item_lower, pkg_normalized)

IsMetadataOf(pkg_normalized, item_lower) ==
  /\ StartsWith(item_lower, pkg_normalized \o <<"_">>)
  /\ Len(item_lower) >= Len(pkg_normalized) + 2
  /\ IsDigit(item_lower[Len(pkg_normalized) + 2])
  /\ \/ Contains(item_lower, <<"d","i","s","t","_","i","n","f","o">>)
     \/ Contains(item_lower, <<"d","i","s","t","-","i","n","f","o">>)
     \/ Contains(item_lower, <<"e","g","g","_","i","n","f","o">>)
     \/ Contains(item_lower, <<"e","g","g","-","i","n","f","o">>)

ForceDeleteMatches(pkg_name, s) ==
  LET pkg_normalized == Replace(Lower(chars[pkg_name]), "-", "_")
  IN  {item \in s :
         LET item_lower == Replace(Lower(chars[item]), "-", "_")
         IN  item_lower = pkg_normalized \/ IsMetadataOf(pkg_normalized, item_lower)}

_force_delete_package(pkg_name, s, rm) ==
  LET matches == ForceDeleteMatches(pkg_name, s)
  IN  [site |-> IF rm THEN s \ matches ELSE s, deleted |-> matches # {}]

(* Function-level specification: _force_delete_package applied to a package *)
(* name and the directories of site-packages                                *)
ForceDeleteNames == {"foo-bar", "Foo_Bar", "foo_barbaz", "foo", "foo-2bar"}
ForceDeleteEntries ==
  {"foo_bar", "foo_bar-2.1.dist-info", "foo_bar_2.1.dist_info", "Foo_Bar-2.1.egg-info",
   "foo_barbaz", "foo_barbaz-1.0.dist-info",
   "foo", "foo-1.0.dist-info", "foo_2bar", "foo_2bar-1.0.dist-info"}

ForceDeleteInit ==
  /\ call \in [fn : {"_force_delete_package"}, pkg_name : ForceDeleteNames,
                s : SUBSET ForceDeleteEntries, rm : BOOLEAN]
  /\ ret = NotCalled
  /\ EngineUnused
  /\ ResolverUnused

CallForceDeletePackage ==
  /\ call.fn = "_force_delete_package"
  /\ ~ret.done
  /\ ret' = Returned(_force_delete_package(call.pkg_name, call.s, call.rm))
  /\ UNCHANGED <<call, engineVars, resolverVars>>

SpecForceDelete == ForceDeleteInit /\ [][CallForceDeletePackage]_vars

---------------------------------------------------------------------------
(* Drain Uninstalls *)

UninstallFiles == <<"sageattention.txt", "triton.txt">>
UninstallPayloads == {"", "triton", "triton\nsageattention"}

\* [f for f in os.listdir(pending_dir) if f.endswith('.txt')]
ListMarkers(files, dir) ==
  SelectSeq(files, LAMBDA f : dir[f] # NoFile /\ EndsWith(chars[f], chars[".txt"]))

\* [pkg.strip() for pkg in text.strip().split('\n') if pkg.strip()]
RECURSIVE StrippedLines(_)
StrippedLines(lines) ==
  IF lines = <<>> THEN <<>>
  ELSE (IF Strip(Head(lines)) = <<>> THEN <<>> ELSE <<Str(Strip(Head(lines)))>>)
         \o StrippedLines(Tail(lines))
PayloadPackages(text) == StrippedLines(Split(Strip(chars[text]), "\n"))

\* prestartup_script._run_pending_uninstalls, lines 616-636: the check of every
\* package after a failed uninstall, with the forced deletion on a RECORD error
RECURSIVE VerifyRemoved(_, _, _, _, _)
VerifyRemoved(packages, s, is_record_error, rm, marker) ==
  IF packages = <<>> THEN [site |-> s, all_gone |-> TRUE, ops |-> <<>>]
  ELSE
    LET pkg == Head(packages)
        show == Op("uninstalls", "show", "pip", <<pkg>>, marker, "-")
        present == PipShow(pkg, s)
        forced == present /\ is_record_error
        fd == _force_delete_package(pkg, s, rm)
        s1 == IF forced THEN fd.site ELSE s
        verified == forced /\ fd.deleted /\ ~PipShow(pkg, s1)
        rest == VerifyRemoved(Tail(packages), s1, is_record_error, rm, marker)
    IN  [site |-> rest.site,
         all_gone |-> (~present \/ verified) /\ rest.all_gone,
         ops |-> <<show>>
                 \o (IF forced
                     THEN <<Op("uninstalls", "force_delete", "-", <<pkg>>, marker, "-")>>
                          \o (IF fd.deleted THEN <<show>> ELSE <<>>)
                     ELSE <<>>)
                 \o rest.ops]

\* prestartup_script._run_pending_uninstalls, one marker of the loop.
\* res is how the uninstall command ends, gone the packages it has removed when it
\* fails.  The result: the entries afterwards, whether the marker file is removed,
\* the operations issued, and whether the command failed.
PrestartupUninstall(marker, text, s, res, gone, rm) ==
  LET packages == PayloadPackages(text)
      cmd == Op("uninstalls", "uninstall", "pip", packages, marker, res)
  IN  IF text = NoFile
      THEN [site |-> s, remove |-> FALSE, ops |-> <<>>, fault |-> FALSE]
      ELSE IF packages = <<>>
      THEN [site |-> s, remove |-> TRUE, ops |-> <<>>, fault |-> FALSE]
      ELSE IF res = "timeout"
      THEN [site |-> s, remove |-> FALSE, ops |-> <<cmd>>, fault |-> TRUE]
      ELSE IF res = "ok"
      THEN [site |-> Uninstalled(packages, s), remove |-> TRUE, ops |-> <<cmd>>,
            fault |-> FALSE]
      ELSE LET v == VerifyRemoved(packages, Uninstalled(gone, s), res = "record", rm, marker)
           IN  [site |-> v.site, remove |-> v.all_gone, ops |-> <<cmd>> \o v.ops,
                fault |-> TRUE]

\* pre_launch.run_pending_uninstalls, one marker of the loop
PreLaunchUninstall(marker, text, s, backend, res, gone, rm) ==
  LET package_name == Str(Strip(chars[text]))
      cmd == Op("uninstalls", "uninstall", backend, <<package_name>>, marker, res)
      fd == _force_delete_package(package_name, Uninstalled(gone, s), rm)
  IN  IF text = NoFile
      THEN [site |-> s, remove |-> FALSE, ops |-> <<>>, fault |-> FALSE]
      ELSE IF package_name = ""
      THEN [site |-> s, remove |-> TRUE, ops |-> <<>>, fault |-> FALSE]
      ELSE IF res = "timeout"
      THEN [site |-> s, remove |-> TRUE, ops |-> <<cmd>>, fault |-> TRUE]
      ELSE IF res = "ok"
      THEN [site |-> Uninstalled(<<package_name>>, s), remove |-> TRUE, ops |-> <<cmd>>,
            fault |-> FALSE]
      ELSE [site |-> fd.site, remove |-> TRUE,
            ops |-> <<cmd, Op("uninstalls", "force_delete", "-", <<package_name>>, marker, "-")>>,
            fault |-> res # "error"]

\* the results the uninstall of `names` can have: a name that is no project name
\* makes the package manager exit non-zero
UninstallResults(names, f) ==
  IF \A i \in 1..Len(names) : ValidName(names[i]) THEN Results(f) ELSE {"error"}
\* what a failed uninstall of `names` may nevertheless have removed
GoneChoices(names, res) ==
  IF res \in {"lock", "record"}
  THEN {g \in SUBSET Range(names) : \A n \in g : ValidName(n)}
  ELSE {{}}
SetToSeq(set) ==
  CHOOSE q \in [1..Cardinality(set) -> set] : Range(q) = set

\* _cleanup_corrupted_packages / cleanup_corrupted_packages where no package has
\* corrupted metadata: the two listings, and nothing to delete
CleanupOps(stage) ==
  <<Op(stage, "list", "pip", <<"--format=freeze">>, "-", "ok"),
    Op(stage, "list", "pip", <<>>, "-", "ok")>>

Stages == {"uninstalls", "installs", "critical", "verify"}
MaxPasses == 2
Scripts == {"pre_launch", "prestartup"}

\* the stages in the order pre_launch.main calls them
After_critical_first(s, stage) ==
  CASE stage = "uninstalls" -> "critical"
    [] stage = "critical" -> "list_installs"
    [] stage = "installs" -> IF s = "prestartup" THEN "requirements" ELSE "verify"
    [] stage = "requirements" -> "verify"
    [] stage = "verify" -> "done"

\* Where the script s goes on when a stage returns: main of pre_launch; the
\* module body and _install_pending_requirements of prestartup_script, which
\* installs the requirements files between the pending installs and the critical
\* packages.
After(s, stage) ==
  CASE stage = "uninstalls" -> "list_installs"
    [] stage = "installs" -> IF s = "prestartup" THEN "requirements" ELSE "critical"
    [] stage = "requirements" -> "critical"
    [] stage = "critical" -> "verify"
    [] stage = "verify" -> "done"

\* pre_launch.main / the module body of prestartup_script begin
StartPass ==
  /\ pc \in {"idle", "done"}
  /\ passes < MaxPasses
  /\ \E s \in Scripts :
        /\ script' = s
        /\ log' = IF s = "prestartup" THEN CleanupOps("cleanup") ELSE <<>>
  /\ passes' = passes + 1
  /\ previous' = script
  /\ pc' = "list_uninstalls"
  /\ entered' = {}
  /\ raised' = "none"
  /\ UNCHANGED <<call, ret, pending_uninstalls, pending_installs, site, uv, queue, faults,
                 hostError, stale, chars, old_triton_marker, resolverVars>>

\* How shutil.move ends: it returns ("ok"), it raises before anything is written
\* ("error"), or os.rename fails, the copy is made and os.unlink of the legacy
\* file raises ("copied")
MoveResults(f) == IF f < MaxFaults THEN {"ok", "error", "copied"} ELSE {"ok"}

\* a move that copies the legacy file and leaves it where it was
_migrate_old_pending_markers_copy(old, dir, res) ==
  IF old = NoFile THEN [old |-> old, dir |-> dir, ops |-> <<>>]
  ELSE [old |-> old,
        dir |-> IF res = "error" THEN dir ELSE [dir EXCEPT !["triton.txt"] = old],
        ops |-> <<Op("uninstalls", "migrate", "shutil", <<old>>, "triton.txt", res)>>]

\* prestartup_script._migrate_old_pending_markers: old is the text of
\* .nuvu/pending_triton_uninstall, dir the pending_uninstalls directory, res how
\* shutil.move ends; an exception of shutil.move is logged
_migrate_old_pending_markers(old, dir, res) ==
  IF old = NoFile THEN [old |-> old, dir |-> dir, ops |-> <<>>]
  ELSE [old |-> IF res = "ok" THEN NoFile ELSE old,
        dir |-> IF res = "error" THEN dir ELSE [dir EXCEPT !["triton.txt"] = old],
        ops |-> <<Op("uninstalls", "migrate", "shutil", <<old>>, "triton.txt", res)>>]

\* run_pending_uninstalls / _run_pending_uninstalls up to the loop:
\* _get_all_pending_uninstall_markers of prestartup_script migrates the legacy
\* marker before it lists the directory, pre_launch lists the directory
ListUninstalls ==
  /\ pc = "list_uninstalls"
  /\ \E res \in (IF script = "prestartup" /\ old_triton_marker # NoFile
                 THEN MoveResults(faults) ELSE {"ok"}) :
       \E m \in {IF script = "prestartup"
                 THEN _migrate_old_pending_markers(old_triton_marker, pending_uninstalls, res)
                 ELSE [old |-> old_triton_marker, dir |-> pending_uninstalls, ops |-> <<>>]} :
         \E markers \in {ListMarkers(UninstallFiles, m.dir)} :
           /\ old_triton_marker' = m.old
           /\ pending_uninstalls' = m.dir
           /\ log' = log \o m.ops
           /\ faults' = IF res = "ok" THEN faults ELSE faults + 1
           /\ queue' = markers
           /\ pc' = IF markers = <<>> THEN After(script, "uninstalls") ELSE "uninstalls"
  /\ entered' = entered \cup {"uninstalls"}
  /\ UNCHANGED <<call, ret, script, passes, pending_installs, site, uv,
                 raised, hostError, stale, chars, previous, resolverVars>>

\* a loop that lists the directory again after every marker
UninstallMarkerDone_relist(r) ==
  /\ site' = r.site
  /\ pending_uninstalls' =
       IF r.remove THEN [pending_uninstalls EXCEPT ![Head(queue)] = NoFile]
       ELSE pending_uninstalls
  /\ log' = log \o r.ops
  /\ faults' = IF r.fault THEN faults + 1 ELSE faults
  /\ queue' = ListMarkers(UninstallFiles, pending_uninstalls')
  /\ pc' = IF queue' = <<>> THEN After(script, "uninstalls") ELSE "uninstalls"
  /\ UNCHANGED <<call, ret, script, passes, pending_installs, uv, entered, raised,
                 hostError, stale, chars, old_triton_marker, previous, resolverVars>>

\* a loop that empties a marker file where the code removes it
UninstallMarkerDone_truncate(r) ==
  /\ site' = r.site
  /\ pending_uninstalls' =
       IF r.remove THEN [pending_uninstalls EXCEPT ![Head(queue)] = ""]
       ELSE pending_uninstalls
  /\ log' = log \o r.ops
  /\ faults' = IF r.fault THEN faults + 1 ELSE faults
  /\ queue' = Tail(queue)
  /\ pc' = IF Tail(queue) = <<>> THEN After(script, "uninstalls") ELSE "uninstalls"
  /\ UNCHANGED <<call, ret, script, passes, pending_installs, uv, entered, raised,
                 hostError, stale, chars, old_triton_marker, previous, resolverVars>>

\* a loop that leaves every marker file in place
UninstallMarkerDone_keep(r) ==
  /\ site' = r.site
  /\ log' = log \o r.ops
  /\ faults' = IF r.fault THEN faults + 1 ELSE faults
  /\ queue' = Tail(queue)
  /\ pc' = IF Tail(queue) = <<>> THEN After(script, "uninstalls") ELSE "uninstalls"
  /\ UNCHANGED <<call, ret, script, passes, pending_uninstalls, pending_installs, uv,
                 entered, raised, hostError, stale, chars,
                 old_triton_marker, previous, resolverVars>>

UninstallMarkerDone(r) ==
  /\ site' = r.site
  /\ pending_uninstalls' =
       IF r.remove THEN [pending_uninstalls EXCEPT ![Head(queue)] = NoFile]
       ELSE pending_uninstalls
  /\ log' = log \o r.ops
  /\ faults' = IF r.fault THEN faults + 1 ELSE faults
  /\ queue' = Tail(queue)
  /\ pc' = IF Tail(queue) = <<>> THEN After(script, "uninstalls") ELSE "uninstalls"
  /\ UNCHANGED <<call, ret, script, passes, pending_installs, uv, entered, raised, hostError, stale, chars,
                 old_triton_marker, previous, resolverVars>>

PrestartupUninstallMarker ==
  /\ script = "prestartup" /\ pc = "uninstalls"
  /\ \E marker \in {Head(queue)} :
       \E text \in {pending_uninstalls[marker]} :
         \E packages \in {IF text = NoFile THEN <<>> ELSE PayloadPackages(text)} :
           \E res \in UninstallResults(packages, faults), rm \in BOOLEAN :
             \E gone \in GoneChoices(packages, res) :
               \E r \in {PrestartupUninstall(marker, text, site, res, SetToSeq(gone), rm)} :
                 UninstallMarkerDone(r)

PreLaunchUninstallMarker ==
  /\ script = "pre_launch" /\ pc = "uninstalls"
  /\ \E marker \in {Head(queue)} :
       \E text \in {pending_uninstalls[marker]} :
         \E names \in {IF text = NoFile THEN <<>> ELSE <<Str(Strip(chars[text]))>>} :
           \E res \in UninstallResults(names, faults), rm \in BOOLEAN :
             \E gone \in GoneChoices(names, res) :
               \E r \in {PreLaunchUninstall(marker, text, site, IF uv THEN "uv" ELSE "pip",
                                            res, SetToSeq(gone), rm)} :
                 UninstallMarkerDone(r)

---------------------------------------------------------------------------
(* Drain Installs *)

InstallFiles == <<"nodeB.txt", "pkgA.txt">>
InstallPayloads ==
  {"", "pkgA==2.0", "--force-reinstall pkgA==2.0 --index-url https://idx",
   "--upgrade", "pkgA==\"2.0", "-f https://idx pkgA==2.0"}

\* shlex.split(s): words separated by whitespace, a quotation kept in its word;
\* ok is FALSE when a quotation is not closed (ValueError: No closing quotation).
\* The payloads hold no backslash, so escapes are not modelled.
Quotes == {"\"", "'"}
\* the state of the splitter after the character c
ShlexStep(st, c) ==
  LET quoted == st.quote # ""
      space == ~quoted /\ c \in Whitespace
      opens == ~quoted /\ ~space /\ c \in Quotes
      closes == quoted /\ c = st.quote
  IN  [cur |-> IF space THEN <<>> ELSE IF opens \/ closes THEN st.cur ELSE Append(st.cur, c),
       inWord |-> ~space,
       quote |-> IF opens THEN c ELSE IF closes \/ space THEN "" ELSE st.quote,
       acc |-> IF space /\ st.inWord THEN Append(st.acc, st.cur) ELSE st.acc]
RECURSIVE ShlexFrom(_, _, _)
ShlexFrom(s, i, st) ==
  IF i > Len(s)
  THEN [ok |-> st.quote = "", parts |-> IF st.inWord THEN Append(st.acc, st.cur) ELSE st.acc]
  ELSE The({ShlexFrom(s, j, next) : j \in {i + 1}, next \in {ShlexStep(st, s[i])}})
ShlexSplit(s) == ShlexFrom(s, 1, [cur |-> <<>>, inWord |-> FALSE, quote |-> "", acc |-> <<>>])

\* a sequence of character sequences as a sequence of strings
Strs(parts) == [i \in 1..Len(parts) |-> Str(parts[i])]

ValueFlags == {"--index-url", "--extra-index-url", "--find-links", "-f"}

\* _extract_package_names / extract_package_names
RECURSIVE ExtractFrom(_, _)
ExtractFrom(spec_parts, skip_next) ==
  IF spec_parts = <<>> THEN <<>>
  ELSE
    LET part == Head(spec_parts)
        cut == FirstIndexIn(chars[part], OpChars)
        pkg_name == IF cut = 0 THEN chars[part] ELSE SubSeq(chars[part], 1, cut - 1)
        long_flag == ~skip_next /\ StartsWith(chars[part], <<"-", "-">>)
        short_flag == ~skip_next /\ ~long_flag /\ StartsWith(chars[part], <<"-">>)
        named == ~skip_next /\ ~long_flag /\ ~short_flag /\ pkg_name # <<>>
    IN  (IF named THEN <<Str(pkg_name)>> ELSE <<>>)
          \o ExtractFrom(Tail(spec_parts), long_flag /\ part \in ValueFlags)
_extract_package_names(spec_parts) == ExtractFrom(spec_parts, FALSE)

\* the tokens passed as they are
TranslateForUv_unchanged(spec_parts) == spec_parts

\* [p if p != '--force-reinstall' else '--reinstall' for p in spec_parts]
TranslateForUv(spec_parts) ==
  [i \in 1..Len(spec_parts) |->
     IF spec_parts[i] # "--force-reinstall" THEN spec_parts[i] ELSE "--reinstall"]

\* What the package index gives for a requirement, and the installed metadata
\* directories that already satisfy it.
IndexResolve ==
  ("pkgA==2.0" :> "pkgA-2.0.dist-info") @@ ("pillow" :> "pillow-10.0.0.dist-info") @@
  ("huggingface_hub<1.0" :> "huggingface_hub-0.34.0.dist-info") @@
  ("numpy>=1.24.0" :> "numpy-1.26.0.dist-info") @@ ("numpy" :> "numpy-1.26.0.dist-info")
Satisfying ==
  ("pkgA==2.0" :> {"pkgA-2.0.dist-info"}) @@ ("pillow" :> {"pillow-10.0.0.dist-info"}) @@
  ("huggingface_hub<1.0" :> {"huggingface_hub-0.34.0.dist-info"}) @@
  ("numpy>=1.24.0" :> {"numpy-1.26.0.dist-info"}) @@
  ("numpy" :> {"numpy-1.23.0.dist-info", "numpy-1.26.0.dist-info"})

\* a successful install of the arguments `args`, which name no project twice
Installed(args, s, reinstall) ==
  LET todo == {r \in Range(args) \cap DOMAIN IndexResolve :
                 reinstall \/ s \cap Satisfying[r] = {}}
      projects == {Str(DistPackage(IndexResolve[r])) : r \in todo}
  IN  (s \ UNION {OwnedBy(project, s) : project \in projects})
        \cup {IndexResolve[r] : r \in todo} \cup {ModuleDir[project] : project \in projects}
InstallOk(args, s) ==
  Installed(args, s, "--force-reinstall" \in Range(args) \/ "--reinstall" \in Range(args))

\* shlex.split(package_spec) and _extract_package_names(spec_parts) of a payload
Parsed(text) ==
  LET sh == ShlexSplit(Strip(chars[text]))
  IN  IF sh.ok
      THEN [ok |-> TRUE, spec_parts |-> Strs(sh.parts),
            package_names |-> _extract_package_names(Strs(sh.parts))]
      ELSE [ok |-> FALSE, spec_parts |-> <<>>, package_names |-> <<>>]

\* for pkg in package_names: _force_delete_package(pkg)
RECURSIVE ForceDeleteAll(_, _, _, _, _)
ForceDeleteAll(names, s, rm, stage, marker) ==
  IF names = <<>> THEN [site |-> s, ops |-> <<>>]
  ELSE LET fd == _force_delete_package(Head(names), s, rm)
           rest == ForceDeleteAll(Tail(names), fd.site, rm, stage, marker)
       IN  [site |-> rest.site,
            ops |-> <<Op(stage, "force_delete", "-", <<Head(names)>>, marker, "-")>>
                    \o rest.ops]

\* The try block of one marker of _run_pending_installs / run_pending_installs,
\* lines 722-782 / 393-447, after the text has been read and found non-empty.
\* sh is the payload as shlex.split and _extract_package_names see it, ures is how
\* the uninstall-first command ends, ires how the install ends.  exc is the
\* exception that leaves the block, "none" when it runs to its end.
InstallSteps(marker, sh, s, backend, ures, gone, rm, ires) ==
  LET spec_parts == sh.spec_parts
      package_names == sh.package_names
      ucmd == Op("installs", "uninstall", backend, package_names, marker, ures)
      fd == ForceDeleteAll(package_names, Uninstalled(gone, s), rm, "installs", marker)
      first == IF package_names = <<>> THEN [site |-> s, ops |-> <<>>]
               ELSE IF ures = "ok"
               THEN [site |-> Uninstalled(package_names, s), ops |-> <<ucmd>>]
               ELSE [site |-> fd.site, ops |-> <<ucmd>> \o fd.ops]
      ufault == package_names # <<>> /\ ures \in Failures
      install_parts == IF backend = "uv" THEN TranslateForUv(spec_parts) ELSE spec_parts
      icmd == Op("installs", "install", backend, install_parts, marker, ires)
  IN  IF ~sh.ok
      THEN [site |-> s, exc |-> "ValueError", ops |-> <<>>, nfaults |-> 0]
      ELSE IF package_names # <<>> /\ ures = "timeout"
      THEN [site |-> s, exc |-> "TimeoutExpired", ops |-> <<ucmd>>, nfaults |-> 1]
      ELSE The({[site |-> IF ires = "ok" THEN InstallOk(install_parts, u.site) ELSE u.site,
                 exc |-> IF ires = "timeout" THEN "TimeoutExpired" ELSE "none",
                 ops |-> u.ops \o <<icmd>>,
                 nfaults |-> (IF ufault THEN 1 ELSE 0) + (IF ires \in Failures THEN 1 ELSE 0)] :
                u \in {first}})
InstallTry(marker, text, s, backend, ures, gone, rm, ires) ==
  The({InstallSteps(marker, sh, s, backend, ures, gone, rm, ires) : sh \in {Parsed(text)}})

\* the classes of the exceptions of the model and their base classes
Bases ==
  ("TimeoutExpired" :> "SubprocessError") @@ ("SubprocessError" :> "Exception") @@
  ("ValueError" :> "Exception") @@ ("FileNotFoundError" :> "OSError") @@
  ("OSError" :> "Exception") @@ ("Exception" :> "BaseException")
RECURSIVE IsInstance(_, _)
IsInstance(exc, class) ==
  \/ exc = class
  \/ exc \in DOMAIN Bases /\ IsInstance(Bases[exc], class)

\* a loop body that keeps the marker when a command of the marker has failed
PrestartupInstall_rearm(marker, text, s, backend, ures, gone, rm, ires) ==
  IF text = NoFile
  THEN [site |-> s, remove |-> FALSE, ops |-> <<>>, nfaults |-> 0]
  ELSE IF Strip(chars[text]) = <<>>
  THEN [site |-> s, remove |-> TRUE, ops |-> <<>>, nfaults |-> 0]
  ELSE The({[site |-> r.site,
             remove |-> r.exc = "none" /\ r.nfaults = 0,
             ops |-> r.ops, nfaults |-> r.nfaults] :
            r \in {InstallTry(marker, text, s, backend, ures, gone, rm, ires)}})

\* prestartup_script._run_pending_installs, one marker of the loop: the marker is
\* removed at the end of the try block and by the handler of TimeoutExpired, and
\* left by the handler of Exception
PrestartupInstall(marker, text, s, backend, ures, gone, rm, ires) ==
  IF text = NoFile
  THEN [site |-> s, remove |-> FALSE, ops |-> <<>>, nfaults |-> 0]
  ELSE IF Strip(chars[text]) = <<>>
  THEN [site |-> s, remove |-> TRUE, ops |-> <<>>, nfaults |-> 0]
  ELSE The({[site |-> r.site,
             remove |-> r.exc = "none" \/ IsInstance(r.exc, "TimeoutExpired"),
             ops |-> r.ops, nfaults |-> r.nfaults] :
            r \in {InstallTry(marker, text, s, backend, ures, gone, rm, ires)}})

\* pre_launch.run_pending_installs, one marker of the loop: the marker is removed
\* at the end of the try block and by both handlers
PreLaunchInstall(marker, text, s, backend, ures, gone, rm, ires) ==
  IF text = NoFile
  THEN [site |-> s, remove |-> FALSE, ops |-> <<>>, nfaults |-> 0]
  ELSE IF Strip(chars[text]) = <<>>
  THEN [site |-> s, remove |-> TRUE, ops |-> <<>>, nfaults |-> 0]
  ELSE The({[site |-> r.site,
             remove |-> r.exc = "none" \/ IsInstance(r.exc, "TimeoutExpired")
                          \/ IsInstance(r.exc, "Exception"),
             ops |-> r.ops, nfaults |-> r.nfaults] :
            r \in {InstallTry(marker, text, s, backend, ures, gone, rm, ires)}})

\* the package names the uninstall-first step of a marker is given
InstallMarkerNames(text) == IF text = NoFile THEN <<>> ELSE Parsed(text).package_names

InstallResults(f) == IF f < MaxFaults THEN {"ok", "lock", "timeout"} ELSE {"ok"}

\* run_pending_installs / _run_pending_installs up to the loop
ListInstalls ==
  /\ pc = "list_installs"
  /\ LET markers == ListMarkers(InstallFiles, pending_installs)
     IN  /\ queue' = markers
         /\ pc' = IF markers # <<>> THEN "installs" ELSE After(script, "installs")
  /\ entered' = entered \cup {"installs"}
  /\ UNCHANGED <<call, ret, script, passes, pending_uninstalls, pending_installs, site, uv,
                 log, faults, raised, hostError, stale, chars,
                 old_triton_marker, previous, resolverVars>>

\* a loop that is left when a marker of the snapshot cannot be read
InstallMarkerDone_abort(r) ==
  /\ site' = r.site
  /\ pending_installs' =
       IF r.remove THEN [pending_installs EXCEPT ![Head(queue)] = NoFile]
       ELSE pending_installs
  /\ log' = log \o r.ops
  /\ faults' = faults + r.nfaults
  /\ queue' = IF pending_installs[Head(queue)] = NoFile THEN <<>> ELSE Tail(queue)
  /\ pc' = IF queue' # <<>> THEN "installs" ELSE After(script, "installs")
  /\ UNCHANGED <<call, ret, script, passes, pending_uninstalls, uv, entered, raised,
                 hostError, stale, chars, old_triton_marker, previous, resolverVars>>

InstallMarkerDone(r) ==
  /\ site' = r.site
  /\ pending_installs' =
       IF r.remove THEN [pending_installs EXCEPT ![Head(queue)] = NoFile]
       ELSE pending_installs
  /\ log' = log \o r.ops
  /\ faults' = faults + r.nfaults
  /\ queue' = Tail(queue)
  /\ pc' = IF Tail(queue) # <<>> THEN "installs" ELSE After(script, "installs")
  /\ UNCHANGED <<call, ret, script, passes, pending_uninstalls, uv, entered, raised,
                 hostError, stale, chars, old_triton_marker, previous, resolverVars>>

\* the ways the two commands of one install marker can end
InstallOutcomes(names, f) ==
  {o \in [ures : {"ok", "lock", "timeout", "error"}, ires : {"ok", "lock", "timeout"}] :
     /\ o.ures \in (IF names = <<>> THEN {"ok"}
                    ELSE IF \A i \in 1..Len(names) : ValidName(names[i])
                    THEN InstallResults(f) ELSE {"error"})
     /\ o.ires \in InstallResults(IF o.ures \in Failures THEN f + 1 ELSE f)}

PrestartupInstallMarker ==
  /\ script = "prestartup" /\ pc = "installs"
  /\ \E marker \in {Head(queue)} :
       \E text \in {pending_installs[marker]} :
         \E names \in {InstallMarkerNames(text)} :
           \E o \in InstallOutcomes(names, faults), rm \in BOOLEAN :
             \E gone \in GoneChoices(names, o.ures) :
               \E r \in {PrestartupInstall(marker, text, site, IF uv THEN "uv" ELSE "pip",
                                           o.ures, SetToSeq(gone), rm, o.ires)} :
                 InstallMarkerDone(r)

PreLaunchInstallMarker ==
  /\ script = "pre_launch" /\ pc = "installs"
  /\ \E marker \in {Head(queue)} :
       \E text \in {pending_installs[marker]} :
         \E names \in {InstallMarkerNames(text)} :
           \E o \in InstallOutcomes(names, faults), rm \in BOOLEAN :
             \E gone \in GoneChoices(names, o.ures) :
               \E r \in {PreLaunchInstall(marker, text, site, IF uv THEN "uv" ELSE "pip",
                                          o.ures, SetToSeq(gone), rm, o.ires)} :
                 InstallMarkerDone(r)

---------------------------------------------------------------------------
(* Requirements *)

\* the requirements.txt of ComfyUI, line by line
RequirementsTxt == <<"# core", "numpy>=1.24.0", "pillow", "--extra-index-url https://idx">>

\* the repositories _install_pending_requirements looks at, where no custom node
\* has requirements pending; the requirements of Nuvu name no package of DistInfos
Repos == <<"Nuvu", "ComfyUI">>

\* _run_requirements_install for each repository in turn; rs gives the way each
\* command ends
RECURSIVE RunRequirements(_, _, _, _, _)
RunRequirements(repos, s, st, backend, rs) ==
  IF repos = <<>> THEN [site |-> s, stale |-> st, ops |-> <<>>, nfaults |-> 0]
  ELSE
    LET repo == Head(repos)
        res == rs[repo]
        cmd == Op("requirements", "install", backend, <<"-r", repo>>, "-", res)
        s1 == IF res = "ok" /\ repo = "ComfyUI" THEN InstallOk(RequirementsTxt, s) ELSE s
        st1 == IF res = "ok" THEN st \ {repo} ELSE st
        rest == RunRequirements(Tail(repos), IF repo \in st THEN s1 ELSE s,
                                IF repo \in st THEN st1 ELSE st, backend, rs)
    IN  IF repo \notin st THEN rest
        ELSE [site |-> rest.site, stale |-> rest.stale, ops |-> <<cmd>> \o rest.ops,
              nfaults |-> rest.nfaults + (IF res \in Failures THEN 1 ELSE 0)]

\* _install_pending_requirements after _run_pending_installs
PrestartupRequirements ==
  /\ script = "prestartup" /\ pc = "requirements"
  /\ \E rs \in [Range(Repos) -> {"ok", "lock", "timeout"}] :
       \E r \in {RunRequirements(Repos, site, stale, IF uv THEN "uv" ELSE "pip", rs)} :
           /\ \A repo \in Range(Repos) \ stale : rs[repo] = "ok"
           /\ faults + r.nfaults <= MaxFaults
           /\ site' = r.site
           /\ stale' = r.stale
           /\ log' = log \o r.ops
           /\ faults' = faults + r.nfaults
  /\ pc' = After(script, "requirements")
  /\ UNCHANGED <<call, ret, script, passes, pending_uninstalls, pending_installs, uv, queue,
                 entered, raised, hostError, chars,
                 old_triton_marker, previous, resolverVars>>

---------------------------------------------------------------------------
(* _run_requirements_install, one repository *)

\* _requirements_need_install: cache is "absent", "same" when the cached copy
\* equals the requirements file, "differs" otherwise
_requirements_need_install(isfile, cache) == isfile /\ cache # "same"

\* an install whose timeout leaves no pending_requirements marker
_run_requirements_install_timeout_unmarked(isfile, cache, has_pending, res) ==
  IF ~isfile \/ (~_requirements_need_install(isfile, cache) /\ ~has_pending)
  THEN [ran |-> FALSE, cache |-> cache, marker |-> has_pending]
  ELSE [ran |-> TRUE,
        cache |-> IF res = "ok" THEN "same" ELSE cache,
        marker |-> IF res = "ok" THEN FALSE
                   ELSE IF res = "lock" THEN TRUE ELSE has_pending]

\* _run_requirements_install: res is how the install command ends ("error" is a
\* non-zero exit without a lock indicator in the output).  The result: whether
\* the command was run, the cache and the pending_requirements marker afterwards.
_run_requirements_install(isfile, cache, has_pending, res) ==
  IF ~isfile \/ (~_requirements_need_install(isfile, cache) /\ ~has_pending)
  THEN [ran |-> FALSE, cache |-> cache, marker |-> has_pending]
  ELSE [ran |-> TRUE,
        cache |-> IF res = "ok" THEN "same" ELSE cache,
        marker |-> IF res = "ok" THEN FALSE
                   ELSE IF res \in {"lock", "timeout"} THEN TRUE ELSE has_pending]

RequirementsInit ==
  /\ call \in [fn : {"_run_requirements_install"}, name : Range(Repos),
               uv_path : {"uv", None}, isfile : BOOLEAN,
               cache : {"absent", "same", "differs"}, has_pending : BOOLEAN,
               res : {"ok", "error"} \cup Failures]
  /\ ret = NotCalled
  /\ EngineUnused
  /\ ResolverUnused

CallRunRequirementsInstall ==
  /\ call.fn = "_run_requirements_install" /\ ~ret.done
  /\ ret' = Returned(_run_requirements_install(call.isfile, call.cache, call.has_pending,
                                               call.res))
  /\ UNCHANGED <<call, engineVars, resolverVars>>

SpecRequirements == RequirementsInit /\ [][CallRunRequirementsInstall]_vars

---------------------------------------------------------------------------
(* Enforce Critical Packages *)

CRITICAL_PACKAGES ==
  << [pip_name |-> "Pillow", package_spec |-> "pillow", description |-> "Pillow",
      force_version |-> FALSE],
     [pip_name |-> "huggingface_hub", package_spec |-> "huggingface_hub<1.0",
      description |-> "HuggingFace Hub", force_version |-> TRUE] >>

\* what importlib.metadata.version(pip_name) may return: the version of a metadata
\* directory of the project, "" for PackageNotFoundError.  With several metadata
\* directories the one found first depends on the order of the directory listing.
InstalledVersions(pip_name, s) ==
  IF DistsOf(pip_name, s) = {} THEN {""}
  ELSE {DistVersion(d) : d \in DistsOf(pip_name, s)}

\* re.search(r'([<>=!]+.+)$', package_spec): the match, <<>> when there is none
Constraint(package_spec) ==
  LET i == FirstIndexIn(package_spec, OpChars)
  IN  IF 0 < i /\ i < Len(package_spec) THEN SubSeq(package_spec, i, Len(package_spec))
      ELSE <<>>

\* the length of group 1 of re.match(r'^([<>=!]+)(.+)$', c), 0 when c does not match
OpLen(c) ==
  LET k == IF \A i \in 1..Len(c) : c[i] \in OpChars THEN Len(c)
           ELSE FirstIndexIn(c, {c[i] : i \in 1..Len(c)} \ OpChars) - 1
  IN  IF k = Len(c) THEN (IF k = 0 THEN 0 ELSE k - 1) ELSE k

\* int(re.match(r'^(\d+)', part).group(1)), 0 when the part starts with no digit
NumPrefix(part) ==
  LET k == IF \A i \in 1..Len(part) : IsDigit(part[i]) THEN Len(part)
           ELSE FirstIndexIn(part, {part[i] : i \in 1..Len(part)} \ DOMAIN DigitVal) - 1
  IN  ToInt(SubSeq(part, 1, k))

\* parse_version of _version_satisfies_constraint
parse_version(v) ==
  LET parts == Split(v, ".") IN [i \in 1..Len(parts) |-> NumPrefix(parts[i])]

\* the comparison of two tuples of integers under a comparison operator
CompareOp(op, a, b) ==
  IF op = <<"<">> THEN TupleLt(a, b)
  ELSE IF op = <<"<", "=">> THEN a = b \/ TupleLt(a, b)
  ELSE IF op = <<">">> THEN TupleLt(b, a)
  ELSE IF op = <<">", "=">> THEN a = b \/ TupleLt(b, a)
  ELSE IF op = <<"=", "=">> THEN a = b
  ELSE IF op = <<"!", "=">> THEN a # b
  ELSE TRUE

_version_satisfies_constraint(installed_version, constraint) ==
  LET n == OpLen(constraint)
      op == SubSeq(constraint, 1, n)
      required == SubSeq(constraint, n + 1, Len(constraint))
  IN  IF installed_version = <<>> THEN FALSE
      ELSE IF n = 0 THEN TRUE
      ELSE CompareOp(op, parse_version(installed_version), parse_version(required))

\* _check_package_installed where sys.executable is not an embedded Python: pip show
\* exits 0 (the location pip reports is the package directory, which exists);
\* a timeout of the command is an exception, and the answer is False
_check_package_installed(pip_name, s, probe) == probe = "ok" /\ PipShow(pip_name, s)

\* _uninstall_package where sys.executable is not an embedded Python
_uninstall_package(pip_name, s, ures, gone, rm) ==
  LET cmd == Op("critical", "uninstall", "pip", <<pip_name>>, "-", ures)
      fd == _force_delete_package(pip_name, Uninstalled(gone, s), rm)
  IN  IF ures = "ok" THEN [site |-> Uninstalled(<<pip_name>>, s), ops |-> <<cmd>>]
      ELSE [site |-> fd.site,
            ops |-> <<cmd, Op("critical", "force_delete", "-", <<pip_name>>, "-", "-")>>]

_install_package(package_spec, s, ires) ==
  LET args == <<"--force-reinstall", package_spec>>
  IN  [site |-> IF ires = "ok" THEN InstallOk(args, s) ELSE s,
       ops |-> <<Op("critical", "install", "pip", args, "-", ires)>>]

\* _ensure_critical_packages, one declaration of the loop.  installed_version is
\* what _get_installed_version returns, probe, ures and ires the ways the pip show,
\* the uninstall and the install end if they are issued.
EnsureCritical(decl, s, installed_version, probe, ures, gone, rm, ires) ==
  LET constraint == Constraint(chars[decl.package_spec])
      has_conflicts == _has_conflicting_versions(decl.pip_name, s)
      un == _uninstall_package(decl.pip_name, s, ures, gone, rm)
      reinstall == _install_package(decl.package_spec, un.site, ires)
      install == _install_package(decl.package_spec, s, ires)
      show == Op("critical", "show", "pip", <<decl.pip_name>>, "-", probe)
      F(r) == IF r \in Failures THEN 1 ELSE 0
  IN  IF decl.force_version
      THEN IF constraint = <<>>
           THEN [site |-> install.site, ops |-> install.ops, nfaults |-> F(ires)]
           ELSE IF has_conflicts
           THEN [site |-> reinstall.site, ops |-> un.ops \o reinstall.ops,
                 nfaults |-> F(ures) + F(ires)]
           ELSE IF installed_version # ""
                   /\ _version_satisfies_constraint(chars[installed_version], constraint)
           THEN [site |-> s, ops |-> <<>>, nfaults |-> 0]
           ELSE [site |-> reinstall.site, ops |-> un.ops \o reinstall.ops,
                 nfaults |-> F(ures) + F(ires)]
      ELSE IF ~_check_package_installed(decl.pip_name, s, probe)
      THEN [site |-> install.site, ops |-> <<show>> \o install.ops,
            nfaults |-> F(probe) + F(ires)]
      ELSE [site |-> s, ops |-> <<show>>, nfaults |-> 0]

\* _ensure_critical_packages up to the loop
PrestartupCriticalStart ==
  /\ script = "prestartup" /\ pc = "critical"
  /\ entered' = entered \cup {"critical"}
  /\ log' = log \o CleanupOps("critical")
  /\ queue' = CRITICAL_PACKAGES
  /\ pc' = "packages"
  /\ UNCHANGED <<call, ret, script, passes, pending_uninstalls, pending_installs, site, uv,
                 faults, raised, hostError, stale, chars,
                 old_triton_marker, previous, resolverVars>>

PrestartupCriticalPackage ==
  /\ script = "prestartup" /\ pc = "packages"
  /\ \E decl \in {Head(queue)} :
         \E installed_version \in InstalledVersions(decl.pip_name, site),
            probe \in {"ok", "timeout"}, ures \in {"ok", "lock", "timeout"},
            ires \in {"ok", "lock", "timeout"}, rm \in BOOLEAN :
           \E gone \in GoneChoices(<<decl.pip_name>>, ures) :
             \E r \in {EnsureCritical(decl, site, installed_version, probe, ures,
                                      SetToSeq(gone), rm, ires)} :
                 /\ faults + r.nfaults <= MaxFaults
                 /\ site' = r.site
                 /\ log' = log \o r.ops
                 /\ faults' = faults + r.nfaults
  /\ queue' = Tail(queue)
  /\ pc' = IF Tail(queue) # <<>> THEN "packages" ELSE After(script, "critical")
  /\ UNCHANGED <<call, ret, script, passes, pending_uninstalls, pending_installs, uv,
                 entered, raised, hostError, stale, chars,
                 old_triton_marker, previous, resolverVars>>

\* the packages pre_launch.install_critical_packages reinstalls
critical_packages ==
  <<"pillow", "numpy", "transformers==4.57.6", "huggingface_hub<1.0", "diffusers>=0.33.0">>

\* pre_launch.install_critical_packages: one command, and subprocess.run is in no
\* try block, so that its timeout leaves the function as an exception
PreLaunchCritical ==
  /\ script = "pre_launch" /\ pc = "critical"
  /\ entered' = entered \cup {"critical"}
  /\ \E res \in Results(faults) :
       LET backend == IF uv THEN "uv" ELSE "pip"
           args == <<IF uv THEN "--reinstall" ELSE "--force-reinstall">>
                     \o critical_packages \o <<"-q">>
       IN  /\ log' = log \o CleanupOps("critical")
                         \o <<Op("critical", "install", backend, args, "-", res)>>
           /\ site' = IF res = "ok" THEN InstallOk(args, site) ELSE site
           /\ faults' = IF res \in Failures THEN faults + 1 ELSE faults
           /\ raised' = IF res = "timeout" THEN "TimeoutExpired" ELSE raised
           /\ pc' = IF res = "timeout" THEN "raised" ELSE After(script, "critical")
  /\ UNCHANGED <<call, ret, script, passes, pending_uninstalls, pending_installs, uv, queue,
                 hostError, stale, chars, old_triton_marker, previous, resolverVars>>

---------------------------------------------------------------------------
(* Verify Requirements List *)

ReqNameChars ==
  DOMAIN UpperToLower \cup {UpperToLower[c] : c \in DOMAIN UpperToLower}
    \cup DOMAIN DigitVal \cup {"_", "-"}

\* _parse_requirement / parse_requirement from the regular expression on:
\* line is the stripped line before its environment marker
ParseLine(line) ==
  LET n == IF \A i \in 1..Len(line) : line[i] \in ReqNameChars THEN Len(line)
           ELSE FirstIndexIn(line, {line[i] : i \in 1..Len(line)} \ ReqNameChars) - 1
  IN  IF n = 0 THEN [ok |-> FALSE]
      ELSE The({[ok |-> TRUE, pkg_name |-> SubSeq(line, 1, n),
                 version_spec |->
                   Strip(IF after # <<>> /\ after[1] = "[" /\ close > 2
                         THEN SubSeq(after, close + 1, Len(after)) ELSE after)] :
                after \in {SubSeq(line, n + 1, Len(line))},
                close \in {FirstIndexIn(SubSeq(line, n + 1, Len(line)), {"]"})}})

\* _parse_requirement / parse_requirement once the line is stripped
ParseStripped(stripped) ==
  IF stripped = <<>> \/ stripped[1] = "#" \/ stripped[1] = "-"
     \/ Contains(stripped, <<":", "/", "/">>)
  THEN [ok |-> FALSE]
  ELSE The({ParseLine(line) :
            line \in {IF FirstIndexIn(stripped, {";"}) = 0 THEN stripped
                      ELSE Strip(SubSeq(stripped, 1, FirstIndexIn(stripped, {";"}) - 1))}})

\* _parse_requirement / parse_requirement: ok is FALSE for None
_parse_requirement(req_line) ==
  The({ParseStripped(stripped) : stripped \in {Strip(chars[req_line])}})

(* Function-level specification: _parse_requirement applied to a line of a   *)
(* requirements file, given by its parts or as a whole                      *)
ParseNames == {"numpy", "Foo_bar-2", "ruamel.yaml"}
ParseConstraints == {"", ">=1.24.0", "==2.0"}
ParseOtherLines ==
  {"", "   ", "# comment", "-e git+https://host/repo", "--extra-index-url https://idx",
   "pkg @ https://host/pkg.whl"}

\* the line a call is given
ReqLine(c) ==
  IF c.whole THEN chars[c.line]
  ELSE chars[c.lead] \o chars[c.name] \o chars[c.extras] \o chars[c.constraint]
         \o chars[c.gap] \o chars[c.marker]

ParseInit ==
  /\ call \in [fn : {"_parse_requirement"}, whole : {TRUE}, line : ParseOtherLines]
              \cup [fn : {"_parse_requirement"}, whole : {FALSE}, lead : {"", " "},
                    name : ParseNames, extras : {"", "[extra]"},
                    constraint : ParseConstraints, gap : {"", "  "},
                    marker : {"", "; platform_system == 'Windows'"}]
  /\ ret = NotCalled
  /\ EngineUnused
  /\ ResolverUnused

CallParseRequirement ==
  /\ call.fn = "_parse_requirement"
  /\ ~ret.done
  /\ \E stripped \in {Strip(ReqLine(call))} : ret' = Returned(ParseStripped(stripped))
  /\ UNCHANGED <<call, engineVars, resolverVars>>

SpecParse == ParseInit /\ [][CallParseRequirement]_vars

\* tuple a padded with zeros to the length n
Padded(a, n) == [i \in 1..n |-> IF i <= Len(a) THEN a[i] ELSE 0]

\* [int(x) for x in re.split(r'[.+]', v.split('+')[0])]: ok is FALSE when int
\* raises ValueError, which it does for a part that is not made of digits
IntParts(v) ==
  The({IF \A i \in 1..Len(parts) :
             parts[i] # <<>> /\ \A j \in 1..Len(parts[i]) : IsDigit(parts[i][j])
       THEN [ok |-> TRUE, parts |-> [i \in 1..Len(parts) |-> ToInt(parts[i])]]
       ELSE [ok |-> FALSE] :
       parts \in {Split(Split(v, "+")[1], ".")}})

\* _version_satisfies_spec / version_satisfies for a specification of one clause.
\* For releases made of numbers packaging compares as the fallback does, the
\* shorter release padded with zeros; a version or a specification packaging
\* rejects raises an exception and leads to the fallback, which answers True
\* when the specification has no operator or a part is not an integer.
_version_satisfies_spec(installed_version, version_spec) ==
  IF version_spec = <<>> \/ installed_version = <<>> THEN TRUE
  ELSE The({IF n = 0 \/ ~inst.ok \/ ~req.ok THEN TRUE
            ELSE The({CompareOp(op, Padded(inst.parts, max_len),
                                Padded(req.parts, max_len)) :
                      op \in {SubSeq(version_spec, 1, n)},
                      max_len \in {IF Len(inst.parts) > Len(req.parts)
                                   THEN Len(inst.parts) ELSE Len(req.parts)}}) :
            n \in {OpLen(version_spec)},
            inst \in {IntParts(installed_version)},
            req \in {IntParts(SubSeq(version_spec, OpLen(version_spec) + 1,
                                     Len(version_spec)))}})

(* Function-level specification: the comparators applied to an installed    *)
(* version and a constraint of one operator and one version                 *)
SatisfiesVersions == {"1", "1.0", "0.34.0", "1.2.0", "1.26.0", "2.x"}
SatisfiesOperators == {"", "<", "<=", ">", ">=", "==", "!=", "=>"}
SatisfiesRequired == {"1", "1.0", "1.24.0", "1.x"}

SatisfiesInit ==
  /\ call \in [fn : {"_version_satisfies_constraint", "_version_satisfies_spec"},
                installed_version : SatisfiesVersions, op : SatisfiesOperators,
                required : SatisfiesRequired]
  /\ ret = NotCalled
  /\ EngineUnused
  /\ ResolverUnused

CallVersionSatisfiesConstraint ==
  /\ call.fn = "_version_satisfies_constraint"
  /\ ~ret.done
  /\ ret' = Returned(_version_satisfies_constraint(chars[call.installed_version],
                                                   chars[call.op] \o chars[call.required]))
  /\ UNCHANGED <<call, engineVars, resolverVars>>

CallVersionSatisfiesSpec ==
  /\ call.fn = "_version_satisfies_spec"
  /\ ~ret.done
  /\ ret' = Returned(_version_satisfies_spec(chars[call.installed_version],
                                             chars[call.op] \o chars[call.required]))
  /\ UNCHANGED <<call, engineVars, resolverVars>>

SatisfiesNext == CallVersionSatisfiesConstraint \/ CallVersionSatisfiesSpec

SpecSatisfies == SatisfiesInit /\ [][SatisfiesNext]_vars

\* the requirement of each line of RequirementsTxt
Requirements == [i \in 1..Len(RequirementsTxt) |-> _parse_requirement(RequirementsTxt[i])]

\* the names of the requirements reqs
RequirementNames(reqs) == {Str(reqs[i].pkg_name) : i \in {j \in DOMAIN reqs : reqs[j].ok}}

\* what get_installed_version returns for each of the names
Observations(names, s) ==
  {f \in [names -> UNION {InstalledVersions(n, s) : n \in names}] :
     \A n \in names : f[n] \in InstalledVersions(n, s)}

\* a verification that looks for absent packages only
IsUnsatisfied_missing_only(req, version, wrong) == ~wrong /\ version = ""

\* whether the requirement req goes to missing_packages (wrong = FALSE) or to
\* wrong_version_packages (wrong = TRUE) when version is what is installed
IsUnsatisfied(req, version, wrong) ==
  IF wrong
  THEN /\ version # ""
       /\ req.version_spec # <<>>
       /\ ~_version_satisfies_spec(chars[version], req.version_spec)
  ELSE version = ""

\* the entries of missing_packages or wrong_version_packages for the
\* requirements reqs from line i on
RECURSIVE Unsatisfied(_, _, _, _)
Unsatisfied(i, reqs, installed, wrong) ==
  IF i > Len(reqs) THEN <<>>
  ELSE (IF reqs[i].ok /\ IsUnsatisfied(reqs[i], installed[Str(reqs[i].pkg_name)], wrong)
        THEN <<Str(reqs[i].pkg_name \o reqs[i].version_spec)>> ELSE <<>>)
         \o Unsatisfied(i + 1, reqs, installed, wrong)
PackagesToInstall(reqs, installed) ==
  Unsatisfied(1, reqs, installed, FALSE) \o Unsatisfied(1, reqs, installed, TRUE)

\* what _verify_comfyui_requirements and verify_and_install_requirements share:
\* the command, if any, and the entries afterwards
VerifyRun(s, packages_to_install, backend, res) ==
  IF packages_to_install = <<>> THEN [site |-> s, ops |-> <<>>, res |-> "ok"]
  ELSE [site |-> IF res = "ok" THEN InstallOk(packages_to_install, s) ELSE s,
        ops |-> <<Op("verify", "install", backend, packages_to_install, "-", res)>>,
        res |-> res]

\* prestartup_script._verify_comfyui_requirements, and _cleanup_orphaned_dist_info,
\* which finds no metadata directory of comfyui_nuvu among DistInfos
PrestartupVerify ==
  /\ script = "prestartup" /\ pc = "verify"
  /\ entered' = entered \cup {"verify"}
  /\ \E reqs \in {Requirements} :
       \E installed \in Observations(RequirementNames(reqs), site), res \in Results(faults) :
         \E packages_to_install \in {PackagesToInstall(reqs, installed)} :
           \E r \in {VerifyRun(site, packages_to_install, IF uv THEN "uv" ELSE "pip", res)} :
             /\ r.res = res
             /\ site' = r.site
             /\ log' = log \o r.ops
             /\ faults' = IF r.res \in Failures THEN faults + 1 ELSE faults
  /\ pc' = After(script, "verify")
  /\ UNCHANGED <<call, ret, script, passes, pending_uninstalls, pending_installs, uv, queue,
                 raised, hostError, stale, chars,
                 old_triton_marker, previous, resolverVars>>

\* pre_launch.verify_and_install_requirements: subprocess.run is in no try block
PreLaunchVerify ==
  /\ script = "pre_launch" /\ pc = "verify"
  /\ entered' = entered \cup {"verify"}
  /\ \E reqs \in {Requirements} :
       \E installed \in Observations(RequirementNames(reqs), site), res \in Results(faults) :
         \E packages_to_install \in {PackagesToInstall(reqs, installed)} :
           \E r \in {VerifyRun(site, packages_to_install, IF uv THEN "uv" ELSE "pip", res)} :
             /\ r.res = res
             /\ site' = r.site
             /\ log' = log \o r.ops
             /\ faults' = IF r.res \in Failures THEN faults + 1 ELSE faults
             /\ raised' = IF r.res = "timeout" THEN "TimeoutExpired" ELSE raised
             /\ pc' = IF r.res = "timeout" THEN "raised" ELSE After(script, "verify")
  /\ UNCHANGED <<call, ret, script, passes, pending_uninstalls, pending_installs, uv, queue,
                 hostError, stale, chars, old_triton_marker, previous, resolverVars>>

\* an except clause that catches OSError only
MainExcept_OSError ==
  /\ pc = "raised"
  /\ hostError' = ~IsInstance(raised, "OSError")
  /\ pc' = "done"
  /\ UNCHANGED <<call, ret, script, passes, pending_uninstalls, pending_installs, site, uv,
                 queue, log, entered, faults, raised, stale, chars,
                 old_triton_marker, previous, resolverVars>>

\* the except clause of pre_launch.main and of the module body of prestartup_script
MainExcept ==
  /\ pc = "raised"
  /\ hostError' = ~IsInstance(raised, "Exception")
  /\ pc' = "done"
  /\ UNCHANGED <<call, ret, script, passes, pending_uninstalls, pending_installs, site, uv,
                 queue, log, entered, faults, raised, stale, chars,
                 old_triton_marker, previous, resolverVars>>

---------------------------------------------------------------------------
(* pre_launch._get_pip_base, _get_uv_cmd and _install_uv: the choice of the  *)
(* package manager.  A command run by the resolution is recorded as          *)
(* [what, candidate, res].                                                   *)

\* the places _get_uv_cmd looks for uv, in its order: the uv module of the running
\* Python, the nuvu install location, the two other common locations, the PATH
UvCandidates == <<"module", "nuvu", "script_dir", "exe_dir", "path">>

\* how a `--version` command ends: exit 0, another exit code, TimeoutExpired
ProbeResults == {"ok", "fail", "timeout"}

\* the module is probed always, an executable when it exists / which() finds it
Probed(candidate, exes) == candidate = "module" \/ candidate \in exes

\* the probes of _get_uv_cmd from candidate i on: the first candidate that exits
\* 0, and the commands run
RECURSIVE ProbeFrom(_, _, _)
ProbeFrom(i, exes, probe) ==
  IF i > Len(UvCandidates) THEN [found |-> None, ops |-> <<>>]
  ELSE IF ~Probed(UvCandidates[i], exes) THEN ProbeFrom(i + 1, exes, probe)
  ELSE The({IF op.res = "ok" THEN [found |-> op.candidate, ops |-> <<op>>]
            ELSE The({[found |-> rest.found, ops |-> <<op>> \o rest.ops] :
                      rest \in {ProbeFrom(i + 1, exes, probe)}}) :
            op \in {[what |-> "probe", candidate |-> UvCandidates[i],
                     res |-> probe[UvCandidates[i]]]}})

\* _install_uv: the path of the executable at the nuvu install location, None
\* when there is none after the download
_install_uv(exes, download) ==
  IF "nuvu" \in exes THEN [path |-> "nuvu", exes |-> exes, ops |-> <<>>]
  ELSE [path |-> IF download = "ok" THEN "nuvu" ELSE None,
        exes |-> IF download = "ok" THEN exes \cup {"nuvu"} ELSE exes,
        ops |-> <<[what |-> "download", candidate |-> "nuvu", res |-> download]>>]

\* _get_uv_cmd from `_uv_checked = True` on
ResolveUv(cmd, standalone, exes, probe, download) ==
  The({IF p.found # None
       THEN [checked |-> TRUE, cmd |-> p.found, standalone |-> p.found # "module",
             value |-> <<p.found, p.found # "module">>, exes |-> exes, ops |-> p.ops]
       ELSE IF inst.path # None
       THEN [checked |-> TRUE, cmd |-> inst.path, standalone |-> TRUE,
             value |-> <<inst.path, TRUE>>, exes |-> inst.exes, ops |-> p.ops \o inst.ops]
       ELSE [checked |-> TRUE, cmd |-> cmd, standalone |-> standalone,
             value |-> <<None, FALSE>>, exes |-> inst.exes, ops |-> p.ops \o inst.ops] :
       p \in {ProbeFrom(1, exes, probe)}, inst \in {_install_uv(exes, download)}})

\* a resolution that does not look at _uv_checked
_get_uv_cmd_uncached(checked, cmd, standalone, exes, probe, download) ==
  ResolveUv(cmd, standalone, exes, probe, download)

\* _get_uv_cmd: the new values of the globals, the pair returned, the executables
\* afterwards and the commands run
_get_uv_cmd(checked, cmd, standalone, exes, probe, download) ==
  IF checked
  THEN [checked |-> TRUE, cmd |-> cmd, standalone |-> standalone,
        value |-> <<cmd, standalone>>, exes |-> exes, ops |-> <<>>]
  ELSE ResolveUv(cmd, standalone, exes, probe, download)

\* _get_pip_base, given what _get_uv_cmd returns
_get_pip_base(uv_cmd, is_standalone_uv) ==
  IF uv_cmd # None THEN [cmd |-> uv_cmd, is_uv |-> TRUE, is_standalone |-> is_standalone_uv]
  ELSE [cmd |-> "pip", is_uv |-> FALSE, is_standalone |-> FALSE]

(* Function-level specification: _get_pip_base called several times in one   *)
(* process; each call meets its own outcomes of the probes and the download  *)
MaxCalls == 3

ResolveInit ==
  /\ call = [fn |-> "_get_pip_base", n |-> 0]
  /\ ret = NotCalled
  /\ EngineUnused
  /\ _uv_cmd = None /\ _uv_is_standalone = FALSE /\ _uv_checked = FALSE
  /\ uv_exes \in SUBSET (Range(UvCandidates) \ {"module"})

CallGetPipBase ==
  /\ call.fn = "_get_pip_base"
  /\ call.n < MaxCalls
  /\ \E probe \in [Range(UvCandidates) -> ProbeResults], download \in {"ok", "fail"} :
       \E r \in {_get_uv_cmd(_uv_checked, _uv_cmd, _uv_is_standalone, uv_exes,
                             probe, download)} :
         /\ _uv_checked' = r.checked
         /\ _uv_cmd' = r.cmd
         /\ _uv_is_standalone' = r.standalone
         /\ uv_exes' = r.exes
         /\ ret' = [done |-> TRUE, value |-> _get_pip_base(r.value[1], r.value[2]),
                    ops |-> r.ops]
  /\ call' = [call EXCEPT !.n = @ + 1]
  /\ UNCHANGED engineVars

SpecResolve == ResolveInit /\ [][CallGetPipBase]_vars

---------------------------------------------------------------------------
(* The installation before the first pass *)

MaxMarkers == 2

InitSites ==
  {{"triton-3.0.0.dist-info", "triton", "sageattention-1.0.6.dist-info", "sageattention",
    "pkgA-1.0.dist-info", "pkgA"} \cup p \cup h \cup n :
     p \in {{}, {"pillow-10.0.0.dist-info", "PIL"}},
     h \in {{}, {"huggingface_hub-0.34.0.dist-info", "huggingface_hub"},
            {"huggingface_hub-1.2.0.dist-info", "huggingface_hub"},
            {"huggingface_hub-0.34.0.dist-info", "huggingface_hub-1.2.0.dist-info",
             "huggingface_hub"}},
     n \in {{}, {"numpy-1.23.0.dist-info", "numpy"}, {"numpy-1.26.0.dist-info", "numpy"}}}

\* an installation with every package of the model in it
BaseSite ==
  {"triton-3.0.0.dist-info", "triton", "sageattention-1.0.6.dist-info", "sageattention",
   "pkgA-1.0.dist-info", "pkgA", "pillow-10.0.0.dist-info", "PIL",
   "huggingface_hub-0.34.0.dist-info", "huggingface_hub", "numpy-1.26.0.dist-info", "numpy"}

\* the installations the passes with pending markers start from: BaseSite, and
\* BaseSite with a numpy older than the requirements file asks for
MarkerSites ==
  {BaseSite, (BaseSite \ {"numpy-1.26.0.dist-info"}) \cup {"numpy-1.23.0.dist-info"}}

MarkerCount(dir) == Cardinality({f \in DOMAIN dir : dir[f] # NoFile})

Init ==
  /\ call = [fn |-> "engine"]
  /\ ret = NotCalled
  /\ script = "none" /\ pc = "idle" /\ passes = 0
  /\ pending_uninstalls \in [Range(UninstallFiles) -> UninstallPayloads \cup {NoFile}]
  /\ pending_installs \in [Range(InstallFiles) -> InstallPayloads \cup {NoFile}]
  /\ old_triton_marker \in {NoFile, "triton"}
  /\ previous = "none"
  /\ MarkerCount(pending_uninstalls) + MarkerCount(pending_installs)
       + (IF old_triton_marker = NoFile THEN 0 ELSE 1) <= MaxMarkers
  /\ site \in InitSites
  /\ \/ MarkerCount(pending_uninstalls) + MarkerCount(pending_installs) = 0
        /\ old_triton_marker = NoFile
     \/ site \in MarkerSites
  /\ uv \in BOOLEAN
  /\ queue = <<>> /\ log = <<>> /\ entered = {}
  /\ faults = 0 /\ raised = "none" /\ hostError = FALSE
  /\ stale \in {{}, Range(Repos)}
  /\ chars = Lit
  /\ ResolverUnused

Next ==
  \/ StartPass
  \/ ListUninstalls
  \/ PrestartupUninstallMarker
  \/ PreLaunchUninstallMarker
  \/ ListInstalls
  \/ PrestartupInstallMarker
  \/ PreLaunchInstallMarker
  \/ PrestartupRequirements
  \/ PrestartupCriticalStart
  \/ PrestartupCriticalPackage
  \/ PreLaunchCritical
  \/ PrestartupVerify
  \/ PreLaunchVerify
  \/ MainExcept

Spec == Init /\ [][Next]_vars

---------------------------------------------------------------------------
(* The passes next to a process that removes marker files *)

\* the passes of an installation whose repositories have no requirements to
\* install: the drain loops take no input from them
DrainInit == Init /\ stale = {}

\* Another process removes a marker of the snapshot that the loop has not reached:
\* open(marker_path) then raises FileNotFoundError inside the try block of the
\* loop.  The log keeps the removal.  (A marker removed between its read and
\* os.remove makes os.remove raise inside the same try block, after which the
\* files are as after the removal by the loop.)
MarkerVanishes ==
  /\ pc \in {"uninstalls", "installs"}
  /\ \E f \in Range(queue) :
       \E dir \in {IF pc = "uninstalls" THEN pending_uninstalls ELSE pending_installs} :
         /\ dir[f] # NoFile
         /\ pending_uninstalls' =
              IF pc = "uninstalls" THEN [dir EXCEPT ![f] = NoFile] ELSE pending_uninstalls
         /\ pending_installs' =
              IF pc = "installs" THEN [dir EXCEPT ![f] = NoFile] ELSE pending_installs
         /\ log' = Append(log, Op(pc, "removed", "other process", <<>>, f, "ok"))
  /\ UNCHANGED <<call, ret, script, pc, passes, site, uv, queue, entered, faults, raised,
                 hostError, stale, chars, old_triton_marker, previous, resolverVars>>

SpecVanish == DrainInit /\ [][Next \/ MarkerVanishes]_vars

---------------------------------------------------------------------------
(* The passes next to a caller that creates marker files *)

\* A caller creates a marker in the directory of the running drain loop, after
\* os.listdir has produced the list the loop iterates over: a file name that is
\* not among the markers the loop has still to read, with the payload "triton" in
\* pending_uninstalls and "pkgA==2.0" in pending_installs.  The log keeps the
\* creation.
MarkerAppears ==
  /\ pc \in {"uninstalls", "installs"}
  /\ MarkerCount(pending_uninstalls) + MarkerCount(pending_installs) < MaxMarkers
  /\ \E dir \in {IF pc = "uninstalls" THEN pending_uninstalls ELSE pending_installs} :
       \E f \in DOMAIN dir \ Range(queue) :
         /\ dir[f] = NoFile
         /\ pending_uninstalls' =
              IF pc = "uninstalls" THEN [dir EXCEPT ![f] = "triton"]
              ELSE pending_uninstalls
         /\ pending_installs' =
              IF pc = "installs" THEN [dir EXCEPT ![f] = "pkgA==2.0"]
              ELSE pending_installs
         /\ log' = Append(log, Op(pc, "created", "caller", <<>>, f, "ok"))
  /\ UNCHANGED <<call, ret, script, pc, passes, site, uv, queue, entered, faults, raised,
                 hostError, stale, chars, old_triton_marker, previous, resolverVars>>

SpecAppear == DrainInit /\ [][Next \/ MarkerAppears]_vars

---------------------------------------------------------------------------
(* Claims *)

\* the package name of a metadata directory <name>-<version>.dist-info
MetadataPackage(item) == RSplit1Head(SubSeq(item, 1, Len(item) - 10), "-")
\* lowercase, hyphens and dots folded to one separator
FoldName(s) == Replace(Replace(Lower(s), "-", "_"), ".", "_")
MetadataDirs(name, listing) ==
  {item \in listing :
     /\ EndsWith(chars[item], chars[".dist-info"])
     /\ FoldName(MetadataPackage(chars[item])) = FoldName(chars[name])}

\* C9: has_conflicting_versions(name) is true exactly when more than one metadata
\* directory <name>-<version>.dist-info of the normalized package name exists.
C9_ConflictExact ==
  ret.done => ret.value = (Cardinality(MetadataDirs(call.pip_name, call.listing)) > 1)

\* C9 (instance): two metadata directories of huggingface_hub have been listed and
\* the function has returned.
C9_TwoDirsListed ==
  /\ ret.done
  /\ call.pip_name = "huggingface_hub"
  /\ Cardinality(MetadataDirs(call.pip_name, call.listing)) = 2

\* the place of a stage in the order of a pass; the two listings of
\* cleanup_corrupted_packages carry the stage that runs them
StageRank(stage) ==
  CASE stage = "cleanup" -> 0
    [] stage = "uninstalls" -> 1
    [] stage = "installs" -> 2
    [] stage = "requirements" -> 3
    [] stage = "critical" -> 4
    [] stage = "verify" -> 5

\* the stage the script is in or about to begin
StageOfPc ==
  CASE pc \in {"list_uninstalls", "uninstalls"} -> "uninstalls"
    [] pc \in {"list_installs", "installs"} -> "installs"
    [] pc = "requirements" -> "requirements"
    [] pc \in {"critical", "packages"} -> "critical"
    [] pc \in {"verify", "raised", "done", "idle"} -> "verify"

\* C1: in every pass the stages run in the order drain uninstalls, drain installs,
\* enforce critical packages, verify requirements: the commands of a pass are in
\* stage order, while markers or packages of a stage remain to be processed no
\* command of a later stage has been issued, and the install of the requirements
\* verification is the last command of the pass.
C1_StageOrder ==
  /\ \A i, j \in 1..Len(log) :
       i < j => StageRank(log[i].stage) <= StageRank(log[j].stage)
  /\ \A i \in 1..Len(log) : StageRank(log[i].stage) <= StageRank(StageOfPc)
  /\ \A i \in 1..Len(log) : log[i].stage = "verify" => i = Len(log) /\ log[i].op = "install"

\* C1 (instance): a pass is over in which an uninstall marker, an install marker,
\* the critical packages and the requirements verification each issued a command.
C1_AllStagesIssued ==
  /\ pc = "done"
  /\ \A stage \in Stages : \E i \in 1..Len(log) : log[i].stage = stage

\* the commands and deletions the step from this state to the next one issues
Issued == SubSeq(log', Len(log) + 1, Len(log'))

\* C2: a failing command never prevents the later stages of the pass: when a pass
\* is over, all four stages have been entered.
C2_AllStagesEntered == pc = "done" => entered = Stages

\* C3: a pass never propagates an error to the host, whatever fails.
C3_NeverPropagates == ~hostError

\* C3 (instance): a command of the pass timed out, the exception left its stage,
\* and the pass is over.
C3_TimeoutSwallowed == pc = "done" /\ raised = "TimeoutExpired" /\ faults > 0

\* C4: an uninstall marker is deleted only if every package its payload names is
\* absent when it is deleted; a marker naming a package that is still present
\* after the failed uninstall, verification and force deletion stays on disk.
C4_UninstallMarkerKept ==
  [][\A m \in Range(UninstallFiles) :
       (pending_uninstalls[m] # NoFile /\ pending_uninstalls'[m] = NoFile) =>
         \A pkg \in Range(PayloadPackages(pending_uninstalls[m])) : ~PipShow(pkg, site')]_vars

\* C5: after a pass every marker whose uninstall or install exited 0 is absent,
\* and every uninstall marker whose uninstall failed with a lock indicator in its
\* output is still present.
C5_MarkerDraining ==
  \A i \in 1..Len(log) :
    /\ (log[i].stage = "uninstalls" /\ log[i].op = "uninstall" /\ log[i].res = "ok")
          => pending_uninstalls[log[i].marker] = NoFile
    /\ (log[i].stage = "installs" /\ log[i].op = "install" /\ log[i].res = "ok")
          => pending_installs[log[i].marker] = NoFile
    /\ (log[i].stage = "uninstalls" /\ log[i].op = "uninstall" /\ log[i].res = "lock")
          => pending_uninstalls[log[i].marker] # NoFile

\* C6: every install marker present when Drain Installs starts is absent when the
\* stage ends, whatever happened while it was processed.
C6_InstallMarkersDrained ==
  (script # "none" /\ StageRank(StageOfPc) > StageRank("installs"))
    => \A f \in Range(InstallFiles) : pending_installs[f] = NoFile

\* the package names of the specifier tokens parts: no flag, no value of a
\* value-taking flag, and of a specifier the part before its first comparator
RECURSIVE SpecifierNames(_, _)
SpecifierNames(parts, is_value) ==
  IF parts = <<>> THEN <<>>
  ELSE LET part == chars[Head(parts)]
           cut == FirstIndexIn(part, OpChars)
           name == IF cut = 0 THEN part ELSE SubSeq(part, 1, cut - 1)
           flag == StartsWith(part, <<"-">>)
       IN  (IF ~is_value /\ ~flag /\ name # <<>> THEN <<Str(name)>> ELSE <<>>)
             \o SpecifierNames(Tail(parts), ~is_value /\ Head(parts) \in ValueFlags)

\* C7: for an install marker whose payload names at least one package, the install
\* command of the marker is preceded, in the processing of the marker, by an
\* uninstall command for exactly the package names of the payload.
C7_CleanSlate ==
  [][(pc = "installs" /\ pending_installs[Head(queue)] # NoFile) =>
       \A i \in 1..Len(Issued) :
         (Issued[i].op = "install"
            /\ SpecifierNames(Parsed(pending_installs[Head(queue)]).spec_parts, FALSE) # <<>>)
         => \E j \in 1..(i - 1) :
              /\ Issued[j].op = "uninstall"
              /\ Issued[j].args =
                   SpecifierNames(Parsed(pending_installs[Head(queue)]).spec_parts, FALSE)]_vars

\* C8: for a critical package with force_version = true that has two or more
\* metadata directories on disk, Enforce Critical Packages issues an uninstall
\* followed by an install, whatever version is reported as installed.
C8_ConflictPrecedence ==
  [][(script = "prestartup" /\ pc = "packages" /\ Head(queue).force_version
        /\ Cardinality(MetadataDirs(Head(queue).pip_name, site)) >= 2) =>
       \E i, j \in 1..Len(Issued) :
         /\ i < j
         /\ Issued[i].op = "uninstall" /\ Issued[i].args = <<Head(queue).pip_name>>
         /\ Issued[j].op = "install" /\ Head(queue).package_spec \in Range(Issued[j].args)]_vars

\* C10: for a critical package with force_version = false, Enforce Critical
\* Packages issues an install command for it if and only if it is absent, and no
\* uninstall command for it.
C10_InstallOnlyIfAbsent ==
  [][\A k \in 1..Len(CRITICAL_PACKAGES) :
       (/\ ~CRITICAL_PACKAGES[k].force_version
        /\ \/ script = "pre_launch" /\ pc = "critical"
           \/ script = "prestartup" /\ pc = "packages" /\ Head(queue) = CRITICAL_PACKAGES[k])
       => /\ (\E i \in 1..Len(Issued) :
                 /\ Issued[i].op = "install"
                 /\ CRITICAL_PACKAGES[k].package_spec \in Range(Issued[i].args))
              <=> ~PipShow(CRITICAL_PACKAGES[k].pip_name, site)
          /\ \A i \in 1..Len(Issued) :
               Issued[i].op = "uninstall" =>
                 CRITICAL_PACKAGES[k].pip_name \notin Range(Issued[i].args)]_vars

\* the numbers of a dotted numeric version, <<>> when a component is not a number
DottedNumbers(v) ==
  LET parts == Split(v, ".")
  IN  IF \A i \in 1..Len(parts) :
           parts[i] # <<>> /\ \A j \in 1..Len(parts[i]) : IsDigit(parts[i][j])
      THEN [i \in 1..Len(parts) |-> ToInt(parts[i])]
      ELSE <<>>

\* a tuple of numbers extended with zeros to n components
ZeroPadded(t, n) == [i \in 1..n |-> IF i <= Len(t) THEN t[i] ELSE 0]

\* the comparator a constraint begins with
Comparator(constraint) ==
  IF \E n \in 1..Len(constraint) : constraint[n] \notin OpChars
  THEN SubSeq(constraint, 1, FirstIndexIn(constraint, Range(constraint) \ OpChars) - 1)
  ELSE constraint

\* the numeric comparison of a dotted version with a constraint <comparator><version>
NumericallySatisfies(version, constraint) ==
  LET op == Comparator(constraint)
      a == DottedNumbers(version)
      b == DottedNumbers(SubSeq(constraint, Len(op) + 1, Len(constraint)))
      n == IF Len(a) > Len(b) THEN Len(a) ELSE Len(b)
  IN  CompareOp(op, ZeroPadded(a, n), ZeroPadded(b, n))

\* the declaration k of CRITICAL_PACKAGES is being enforced by the next step
Enforcing(k) ==
  \/ script = "pre_launch" /\ pc = "critical"
  \/ script = "prestartup" /\ pc = "packages" /\ Head(queue) = CRITICAL_PACKAGES[k]

\* C11: for a critical package with force_version = true and at most one metadata
\* directory: if the installed version satisfies the constraint of the declaration,
\* its enforcement issues no uninstall and no install of it; if it is absent or its
\* version does not satisfy the constraint, the enforcement issues an uninstall of
\* it and after that an install of the declared specifier.
C11_ForcedVersion ==
  [][\A k \in 1..Len(CRITICAL_PACKAGES) :
       (/\ CRITICAL_PACKAGES[k].force_version
        /\ Enforcing(k)
        /\ Cardinality(MetadataDirs(CRITICAL_PACKAGES[k].pip_name, site)) <= 1)
       => LET decl == CRITICAL_PACKAGES[k]
              satisfied ==
                \E d \in MetadataDirs(decl.pip_name, site) :
                  NumericallySatisfies(chars[DistVersion(d)],
                                       Constraint(chars[decl.package_spec]))
              uninstalls == {i \in 1..Len(Issued) :
                               /\ Issued[i].op = "uninstall"
                               /\ decl.pip_name \in Range(Issued[i].args)}
              installs == {i \in 1..Len(Issued) :
                             /\ Issued[i].op = "install"
                             /\ decl.package_spec \in Range(Issued[i].args)}
          IN  IF satisfied THEN uninstalls = {} /\ installs = {}
              ELSE \E i \in uninstalls, j \in installs : i < j]_vars

\* the commands that change the installation
MutatingOps == {"install", "uninstall", "force_delete"}

\* the marker file named by an entry of the log is still there
MarkerPresent(entry) ==
  \/ /\ entry.stage = "uninstalls" /\ entry.marker \in DOMAIN pending_uninstalls
     /\ pending_uninstalls[entry.marker] # NoFile
  \/ /\ entry.stage = "installs" /\ entry.marker \in DOMAIN pending_installs
     /\ pending_installs[entry.marker] # NoFile

\* C12: idempotence.  When every operation so far has succeeded, the four stages
\* of the engine issue no install, reinstall, uninstall or forced deletion in the
\* second of two passes, and a pass that is over has left no marker whose uninstall
\* or install succeeded in it.
C12_Idempotent ==
  faults = 0 =>
    /\ passes = 2 =>
         \A i \in 1..Len(log) : log[i].stage \in Stages => log[i].op \notin MutatingOps
    /\ pc = "done" =>
         \A i \in 1..Len(log) :
           (log[i].op \in {"install", "uninstall"} /\ log[i].res = "ok")
             => ~MarkerPresent(log[i])

\* the requirement strings of RequirementsTxt whose package is absent from the
\* entries s, or present with a version that does not satisfy their constraint
NeededRequirements(s) ==
  {Str(Requirements[i].pkg_name \o Requirements[i].version_spec) :
     i \in {j \in DOMAIN Requirements :
              /\ Requirements[j].ok
              /\ \/ MetadataDirs(Str(Requirements[j].pkg_name), s) = {}
                 \/ /\ Requirements[j].version_spec # <<>>
                    /\ \E d \in MetadataDirs(Str(Requirements[j].pkg_name), s) :
                         ~NumericallySatisfies(chars[DistVersion(d)],
                                               Requirements[j].version_spec)}}

C14_ParseExact ==
  ret.done =>
    IF call.whole THEN ~ret.value.ok
    ELSE ret.value = [ok |-> TRUE, pkg_name |-> chars[call.name],
                      version_spec |-> chars[call.constraint]]

\* the normalized form of a name for forced deletion: lower case, hyphens as
\* underscores
DeletionName(name) == Replace(Lower(name), "-", "_")

MetadataSuffixes ==
  {<<"d","i","s","t","_","i","n","f","o">>, <<"d","i","s","t","-","i","n","f","o">>,
   <<"e","g","g","_","i","n","f","o">>, <<"e","g","g","-","i","n","f","o">>}

\* the entry is in the scope of a forced deletion of the target
InDeletionScope(entry, target) ==
  LET e == DeletionName(chars[entry])
      t == DeletionName(chars[target])
  IN  \/ e = t
      \/ /\ Len(e) >= Len(t) + 2
         /\ SubSeq(e, 1, Len(t) + 1) = t \o <<"_">>
         /\ IsDigit(e[Len(t) + 2])
         /\ \E suffix \in MetadataSuffixes : EndsWith(e, suffix)

\* C15: a forced deletion of a package removes the directories whose normalized
\* name is the normalized target name or begins with <target>_<digit> and ends in
\* a metadata suffix, and no other directory (all of them when the recursive
\* removal works, none of them when it fails); it reports a deletion exactly when
\* a directory is in that scope.
C15_DeletionScope ==
  ret.done =>
    LET scope == {entry \in call.s : InDeletionScope(entry, call.pkg_name)}
    IN  /\ ret.value.site = (IF call.rm THEN call.s \ scope ELSE call.s)
        /\ ret.value.deleted = (scope # {})

\* C15 (instance): the forced deletion of foo-bar has removed foo_bar and
\* foo_bar_2.1.dist_info and has kept foo_barbaz.
C15_PrefixKept ==
  /\ ret.done
  /\ call.pkg_name = "foo-bar" /\ call.rm
  /\ {"foo_bar", "foo_bar_2.1.dist_info", "foo_barbaz"} \subseteq call.s
  /\ ret.value.site \cap {"foo_bar", "foo_bar_2.1.dist_info", "foo_barbaz"} = {"foo_barbaz"}

\* the six comparators
Comparators == {<<"=", "=">>, <<"!", "=">>, <<"<">>, <<"<", "=">>, <<">">>, <<">", "=">>}

\* C16: the comparators return the result of the numeric comparison named by the
\* operator when the installed version and the version of the constraint are
\* dotted numbers and the operator is one of the six, and true otherwise.
C16_SatisfiesNumeric ==
  ret.done =>
    ret.value =
      (IF /\ chars[call.op] \in Comparators
          /\ DottedNumbers(chars[call.installed_version]) # <<>>
          /\ DottedNumbers(chars[call.required]) # <<>>
       THEN NumericallySatisfies(chars[call.installed_version],
                                 chars[call.op] \o chars[call.required])
       ELSE TRUE)

\* C17: when a pass is over, the marker of an uninstall command that timed out in
\* Drain Uninstalls is still present, and the marker of a command that timed out
\* in Drain Installs is absent.
C17_TimeoutMarkers ==
  pc = "done" =>
    \A i \in 1..Len(log) :
      log[i].res = "timeout" =>
        /\ (log[i].stage = "uninstalls" /\ log[i].op = "uninstall") => MarkerPresent(log[i])
        /\ log[i].stage = "installs" => ~MarkerPresent(log[i])

\* C18: when an uninstall command of Drain Uninstalls or of the uninstall-first
\* step of Drain Installs fails with a lock indicator in its output, no forced
\* deletion is made for the marker of that command.
C18_LockNoForceDelete ==
  \A i \in 1..Len(log) :
    (/\ log[i].stage \in {"uninstalls", "installs"}
     /\ log[i].op = "uninstall" /\ log[i].res = "lock")
    => \A j \in 1..Len(log) :
         ~(/\ log[j].op = "force_delete"
           /\ log[j].stage = log[i].stage /\ log[j].marker = log[i].marker)

\* C19: the first resolution returns a uv backend only if that backend answered a
\* version probe with exit code 0 in the resolution; no probe of the returned
\* backend failed; the returned backend is the only one whose probe exited 0 (the
\* probing stops at the first); and when every probe failed pip is returned.
C19_ProbedBackend ==
  (ret.done /\ call.fn = "_get_pip_base" /\ call.n = 1) =>
    LET probes == {i \in 1..Len(ret.ops) : ret.ops[i].what = "probe"}
    IN  /\ ret.value.is_uv =>
             /\ \E i \in probes :
                  ret.ops[i].candidate = ret.value.cmd /\ ret.ops[i].res = "ok"
             /\ \A i \in probes :
                  ret.ops[i].candidate = ret.value.cmd => ret.ops[i].res = "ok"
        /\ \A i \in probes : ret.ops[i].res = "ok" => ret.ops[i].candidate = ret.value.cmd
        /\ (\A i \in probes : ret.ops[i].res # "ok") => ~ret.value.is_uv

\* C20: every call of the resolution after the first runs no probe and no
\* download and returns what the call before it returned, hence what the first
\* call returned.
C20_Cached ==
  [][(call.fn = "_get_pip_base" /\ ret.done) =>
       /\ ret'.ops = <<>>
       /\ ret'.value = ret.value]_vars

\* C20 (instance): the second call has returned the uv backend without a probe.
C20_SecondCallCached ==
  /\ call.fn = "_get_pip_base" /\ call.n = 2
  /\ ret.done /\ ret.ops = <<>>
  /\ ret.value.is_uv

\* C21: every uninstall command of Drain Uninstalls is run through pip, whether
\* a uv is available or not.
C21_UninstallThroughPip ==
  \A i \in 1..Len(log) :
    (log[i].stage = "uninstalls" /\ log[i].op = "uninstall") => log[i].backend = "pip"

\* the non-empty lines of a payload, stripped
NonEmptyLines(text) ==
  LET lines == Split(chars[text], "\n")
      kept == SelectSeq(lines, LAMBDA l : Strip(l) # <<>>)
  IN  [i \in 1..Len(kept) |-> Str(Strip(kept[i]))]

\* C22: the uninstall command of an uninstall marker has one argument for each
\* non-empty line of the payload, in the order of the lines, and when the command
\* fails without timing out every one of these names is looked up on its own.
C22_OneNamePerLine ==
  [][(pc = "uninstalls" /\ pending_uninstalls[Head(queue)] # NoFile) =>
       \A i \in 1..Len(Issued) :
         Issued[i].op = "uninstall" =>
           /\ Issued[i].args = NonEmptyLines(pending_uninstalls[Head(queue)])
           /\ Issued[i].res \in {"lock", "record"} =>
                \A n \in Range(Issued[i].args) :
                  \E j \in 1..Len(Issued) :
                    Issued[j].op = "show" /\ Issued[j].args = <<n>>]_vars

\* C23: when the uninstall command of an uninstall marker has exited 0, the
\* marker file is gone and no forced deletion has been made for that marker.
C23_UninstallSuccess ==
  \A i \in 1..Len(log) :
    (log[i].stage = "uninstalls" /\ log[i].op = "uninstall" /\ log[i].res = "ok")
    => /\ ~MarkerPresent(log[i])
       /\ \A j \in 1..Len(log) :
            ~(/\ log[j].stage = "uninstalls" /\ log[j].op = "force_delete"
              /\ log[j].marker = log[i].marker)

\* C23 (instance): the uninstall of the marker triton.txt has exited 0, triton is
\* no longer installed and the marker is gone.
C23_TritonUninstalled ==
  /\ \E i \in 1..Len(log) :
       /\ log[i].stage = "uninstalls" /\ log[i].op = "uninstall" /\ log[i].res = "ok"
       /\ log[i].marker = "triton.txt" /\ log[i].args = <<"triton">>
  /\ pending_uninstalls["triton.txt"] = NoFile
  /\ ~PipShow("triton", site)

\* C24: the install command of an install marker has the tokens of the marker's
\* specifier as its arguments, in their order; through uv every token
\* --force-reinstall is replaced by --reinstall and the others are unchanged,
\* through pip all tokens are unchanged.
C24_InstallTokens ==
  [][(pc = "installs" /\ pending_installs[Head(queue)] # NoFile) =>
       \A i \in 1..Len(Issued) :
         Issued[i].op = "install" =>
           LET tokens == Parsed(pending_installs[Head(queue)]).spec_parts
           IN  /\ Len(Issued[i].args) = Len(tokens)
               /\ \A k \in 1..Len(tokens) :
                    Issued[i].args[k] =
                      (IF Issued[i].backend = "uv" /\ tokens[k] = "--force-reinstall"
                       THEN "--reinstall" ELSE tokens[k])]_vars

\* C24 (instance): the marker with --force-reinstall has been installed through
\* uv with --reinstall, and through pip with --force-reinstall.
C24_ReinstallSpelling ==
  \E i \in 1..Len(log) :
    /\ log[i].stage = "installs" /\ log[i].op = "install" /\ log[i].backend = "uv"
    /\ log[i].args = <<"--reinstall", "pkgA==2.0", "--index-url", "https://idx">>

\* the step in which a pass of prestartup_script looks for the legacy marker
SeesLegacyMarker ==
  pc = "list_uninstalls" /\ script = "prestartup" /\ old_triton_marker # NoFile

\* C25: the legacy marker is migrated exactly once.  The first pass that sees
\* .nuvu/pending_triton_uninstall moves it to triton.txt with the same payload,
\* after which the legacy file does not exist and no later pass migrates; a
\* migration never leaves both the legacy file and a different triton.txt.
C25_MigratedOnce ==
  [][/\ SeesLegacyMarker =>
          /\ old_triton_marker' = NoFile
          /\ pending_uninstalls'["triton.txt"] = old_triton_marker
     /\ old_triton_marker = NoFile =>
          /\ old_triton_marker' = NoFile
          /\ \A i \in 1..Len(Issued) : Issued[i].op # "migrate"
     /\ ~(/\ old_triton_marker' # NoFile
          /\ \E i \in 1..Len(Issued) : Issued[i].op = "migrate"
          /\ pending_uninstalls'["triton.txt"] \notin {NoFile, old_triton_marker'})]_vars

\* C25 (amended): a pass of prestartup_script that sees the legacy marker tries to
\* move it to triton.txt.  When the move returns, triton.txt has the legacy payload
\* and the legacy file is gone.  When the move raises, the legacy file stays,
\* triton.txt is as it was or has the legacy payload, no other marker changes, and
\* a later pass tries again.  No other step touches the legacy file, and once it is
\* gone no pass migrates.
C25_MigratedUnlessMoveFails ==
  [][/\ SeesLegacyMarker =>
          /\ Len(Issued) = 1 /\ Issued[1].op = "migrate"
          /\ Issued[1].res = "ok" =>
               /\ old_triton_marker' = NoFile
               /\ pending_uninstalls' =
                    [pending_uninstalls EXCEPT !["triton.txt"] = old_triton_marker]
          /\ Issued[1].res # "ok" =>
               /\ old_triton_marker' = old_triton_marker
               /\ \/ pending_uninstalls' = pending_uninstalls
                  \/ pending_uninstalls' =
                       [pending_uninstalls EXCEPT !["triton.txt"] = old_triton_marker]
     /\ ~SeesLegacyMarker =>
          /\ old_triton_marker' = old_triton_marker
          /\ \A i \in 1..Len(Issued) : Issued[i].op # "migrate"]_vars

\* C25 (instance): the listing of a second pass has moved the legacy marker that
\* the first pass, of pre_launch, had left alone
C25_Migrated ==
  /\ passes = 2 /\ pc = "uninstalls"
  /\ old_triton_marker = NoFile
  /\ pending_uninstalls["triton.txt"] = "triton"
  /\ \E i \in 1..Len(log) : log[i].op = "migrate" /\ log[i].res = "ok"

\* C26: a marker of the snapshot that has disappeared when the loop reaches it
\* raises nothing out of the stage and issues no command, and the loop goes on
\* with the remaining markers of the snapshot: every step of a drain loop takes
\* the first marker off the snapshot and leaves the stage only after the last.
C26_VanishedMarkerSkipped ==
  [][(pc \in {"uninstalls", "installs"} /\ queue' # queue) =>
       /\ queue' = Tail(queue)
       /\ pc' = IF Tail(queue) # <<>> THEN pc ELSE After(script, pc)
       /\ raised' = raised /\ hostError' = hostError
       /\ (IF pc = "uninstalls" THEN pending_uninstalls ELSE pending_installs)[Head(queue)]
             = NoFile
            => /\ Issued = <<>>
               /\ site' = site
               /\ pending_uninstalls' = pending_uninstalls
               /\ pending_installs' = pending_installs]_vars

\* C26 (instance): sageattention.txt was removed by another process before the
\* loop read it, and the loop has gone on to uninstall the packages of triton.txt
C26_NextMarkerProcessed ==
  /\ raised = "none" /\ ~hostError
  /\ \E i, j \in 1..Len(log) :
       /\ i < j
       /\ log[i].op = "removed" /\ log[i].marker = "sageattention.txt"
       /\ log[j].op = "uninstall" /\ log[j].marker = "triton.txt"
       /\ \A k \in 1..Len(log) : log[k].marker = "sageattention.txt" => k = i

\* the commands of the package managers
PackageManagerOps == {"uninstall", "install", "show", "list"}

\* C27: in a pass of prestartup_script that follows a pass of pre_launch the two
\* drain stages are no-ops: they find no marker in the pending directories, so
\* neither loop is entered, and they issue no package-manager command.
C27_DrainNoOpAfterPreLaunch ==
  (script = "prestartup" /\ previous = "pre_launch") =>
    /\ pc \notin {"uninstalls", "installs"}
    /\ \A i \in 1..Len(log) :
         log[i].stage \in {"uninstalls", "installs"} => log[i].op \notin PackageManagerOps

\* C28: the engine never edits a marker.  Whatever step a pass takes, a file of
\* the pending directories keeps its payload or is deleted: no marker is created
\* and no payload is changed.
C28_MarkersOnlyDeleted ==
  [][/\ \A f \in DOMAIN pending_uninstalls :
          pending_uninstalls'[f] \in {pending_uninstalls[f], NoFile}
     /\ \A f \in DOMAIN pending_installs :
          pending_installs'[f] \in {pending_installs[f], NoFile}]_vars

\* C28 (amended): a file of the pending directories keeps its payload or is
\* deleted, except that the migration of the legacy uninstall marker creates
\* triton.txt, or replaces its payload, with the payload of the legacy marker.
C28_OnlyDeletedOrMigrated ==
  [][/\ \A f \in DOMAIN pending_uninstalls :
          \/ pending_uninstalls'[f] \in {pending_uninstalls[f], NoFile}
          \/ /\ f = "triton.txt" /\ SeesLegacyMarker
             /\ pending_uninstalls'[f] = old_triton_marker
             /\ \E i \in 1..Len(Issued) : Issued[i].op = "migrate" /\ Issued[i].res # "error"
     /\ \A f \in DOMAIN pending_installs :
          pending_installs'[f] \in {pending_installs[f], NoFile}]_vars

\* C28 (instance): after a pass whose uninstall hit a file lock, triton.txt is
\* present with the two lines it had, and no migration took part
C28_PayloadKept ==
  /\ pc = "done" /\ script = "prestartup"
  /\ pending_uninstalls["triton.txt"] = "triton\nsageattention"
  /\ \E i \in 1..Len(log) :
       log[i].op = "uninstall" /\ log[i].marker = "triton.txt" /\ log[i].res = "lock"
  /\ \A i \in 1..Len(log) : log[i].op # "migrate"

\* C29: an uninstall marker is retried until its packages are gone.  Every pass
\* takes every marker that is in the directory into its snapshot; the step that
\* processes a marker naming packages runs its uninstall command, deletes the
\* marker when the command exits 0 or, after a failure that is no timeout, when
\* none of the packages is installed any more, and never deletes it while the
\* command fails and one of the packages is still installed.
C29_RetriedUntilGone ==
  [][/\ pc = "list_uninstalls" =>
          \A f \in Range(UninstallFiles) :
            pending_uninstalls'[f] # NoFile => f \in Range(queue')
     /\ (pc = "uninstalls" /\ pending_uninstalls[Head(queue)] # NoFile
           /\ NonEmptyLines(pending_uninstalls[Head(queue)]) # <<>>) =>
          \E i \in 1..Len(Issued) :
            /\ Issued[i].op = "uninstall" /\ Issued[i].marker = Head(queue)
            /\ \E absent \in {\A pkg \in Range(NonEmptyLines(pending_uninstalls[Head(queue)])) :
                                ~PipShow(pkg, site')} :
                 /\ (Issued[i].res = "ok" \/ (Issued[i].res # "timeout" /\ absent))
                      => pending_uninstalls'[Head(queue)] = NoFile
                 /\ (Issued[i].res # "ok" /\ ~absent)
                      => pending_uninstalls'[Head(queue)] # NoFile]_vars

\* the number of commands op that the stage has issued for the marker f
CommandCount(stage, op, f) ==
  Cardinality({i \in 1..Len(log) :
                 log[i].stage = stage /\ log[i].op = op /\ log[i].marker = f})

\* C30: a drain stage works on the snapshot taken when it starts.  The listing
\* step fixes the snapshot; every step of the loop takes the first marker off it,
\* issues commands for that marker only, and leaves the stage after the last one,
\* so the stage ends after as many steps as the snapshot has markers; no marker
\* gets more than one uninstall command in Drain Uninstalls or more than one
\* install command in Drain Installs; a marker created during the stage gets no
\* command in it.
C30_SnapshotOncePerPass ==
  [][/\ (/\ pc \in {"uninstalls", "installs"}
         /\ \/ queue' # queue
            \/ \E i \in 1..Len(Issued) : Issued[i].op # "created") =>
          /\ queue' = Tail(queue)
          /\ pc' = IF Tail(queue) # <<>> THEN pc ELSE After(script, pc)
          /\ \A i \in 1..Len(Issued) : Issued[i].marker = Head(queue)
     /\ \A f \in Range(UninstallFiles) : CommandCount("uninstalls", "uninstall", f)' <= 1
     /\ \A f \in Range(InstallFiles) : CommandCount("installs", "install", f)' <= 1
     /\ \A i, j \in 1..Len(log') :
          (i < j /\ log'[i].op = "created") => log'[j].marker # log'[i].marker]_vars

\* C30 (instance): triton.txt was created while the loop worked on
\* sageattention.txt; the stage is over, sageattention.txt got its one command,
\* and triton.txt is still there without one
C30_CreatedMarkerWaits ==
  /\ pc \notin {"list_uninstalls", "uninstalls"} /\ passes = 1
  /\ pending_uninstalls["triton.txt"] = "triton"
  /\ CommandCount("uninstalls", "uninstall", "sageattention.txt") = 1
  /\ CommandCount("uninstalls", "created", "triton.txt") = 1
  /\ CommandCount("uninstalls", "uninstall", "triton.txt") = 0

\* C31: the names given to the uninstall-first command of an install marker are
\* exactly the package names of the payload's specifier tokens, each cut before
\* its first comparator character: no flag is among them, and no token that
\* follows --index-url, --extra-index-url, --find-links or -f.
C31_NamesOfSpecifiers ==
  [][(pc = "installs" /\ pending_installs[Head(queue)] # NoFile) =>
       \A i \in 1..Len(Issued) :
         (Issued[i].stage = "installs" /\ Issued[i].op = "uninstall") =>
           \E tokens \in {Parsed(pending_installs[Head(queue)]).spec_parts} :
             /\ Issued[i].args = SpecifierNames(tokens, FALSE)
             /\ \A k \in 1..Len(tokens) :
                  (k > 1 /\ tokens[k - 1] \in ValueFlags)
                    => tokens[k] \notin Range(Issued[i].args)]_vars

\* C32: _run_requirements_install runs the install only if the requirements file
\* differs from the cached copy (or no copy exists) or a pending_requirements
\* marker exists.  After exit 0 the cache equals the requirements file and the
\* marker is absent; after a failure with a lock indicator, and after a timeout,
\* the marker is present; after any other failure marker and cache are unchanged.
C32_RequirementsInstall ==
  (ret.done /\ call.fn = "_run_requirements_install") =>
    /\ ret.value.ran => (call.isfile /\ (call.cache # "same" \/ call.has_pending))
    /\ (ret.value.ran /\ call.res = "ok") =>
         (ret.value.cache = "same" /\ ~ret.value.marker)
    /\ (ret.value.ran /\ call.res \in {"lock", "timeout"}) => ret.value.marker
    /\ (ret.value.ran /\ call.res \in {"record", "error"}) =>
         (ret.value.cache = call.cache /\ ret.value.marker = call.has_pending)

\* C32 (instance): a changed requirements file without a marker, the install has
\* timed out and left the marker and the old cache
C32_TimeoutMarked ==
  /\ ret.done /\ call.fn = "_run_requirements_install"
  /\ call.cache = "differs" /\ ~call.has_pending /\ call.res = "timeout"
  /\ ret.value.ran /\ ret.value.marker /\ ret.value.cache = "differs"

C35_InstallBeforeRemoval ==
  [][(/\ pc = "installs"
      /\ pending_installs[Head(queue)] # NoFile
      /\ Strip(chars[pending_installs[Head(queue)]]) # <<>>
      /\ pending_installs'[Head(queue)] = NoFile)
     => \E i \in 1..Len(Issued) :
          /\ Issued[i].stage = "installs" /\ Issued[i].op = "install"
          /\ Issued[i].marker = Head(queue)]_vars

\* the directories of the packages of the function-level specification
InstalledDirs ==
  ("foo-bar" :> {"foo_bar", "foo_bar-2.1.dist-info", "foo_bar_2.1.dist_info",
                 "Foo_Bar-2.1.egg-info"}) @@
  ("foo_barbaz" :> {"foo_barbaz", "foo_barbaz-1.0.dist-info"}) @@
  ("foo" :> {"foo", "foo-1.0.dist-info"}) @@
  ("foo-2bar" :> {"foo_2bar", "foo_2bar-1.0.dist-info"})

\* C36: a forced deletion of package p removes no directory and no metadata
\* directory of a package q whose normalized name differs from that of p, also
\* when q is named <p>-<digit...> (foo and foo-2bar).
C36_OtherPackagesKept ==
  (ret.done /\ call.fn = "_force_delete_package") =>
    \A q \in DOMAIN InstalledDirs :
      DeletionName(chars[q]) # DeletionName(chars[call.pkg_name])
        => (InstalledDirs[q] \cap call.s) \subseteq ret.value.site

\* C37: for an installed version and a required version that are dotted numbers
\* and a constraint of one of the six comparators, _version_satisfies_constraint
\* returns what the fallback path of _version_satisfies_spec returns; the
\* versions 1 and 1.0 are equal for both.
C37_ComparatorsAgree ==
  (/\ ret.done /\ call.fn = "_version_satisfies_constraint"
   /\ chars[call.op] \in Comparators
   /\ DottedNumbers(chars[call.installed_version]) # <<>>
   /\ DottedNumbers(chars[call.required]) # <<>>)
  => ret.value = _version_satisfies_spec(chars[call.installed_version],
                                         chars[call.op] \o chars[call.required])

----------------------------------------------------------------------------
(* _cleanup_corrupted_packages / cleanup_corrupted_packages: the packages *)
(* with corrupted metadata, read from the two listings of pip             *)

\* the packages of the listings, in the order pip prints them, and the versions
\* pip reports for a package ("" and None are what corrupted metadata gives)
ListedPackages == <<"numpy", "pillow", "pkgA">>
ReportedVersions ==
  {<<"1", ".", "0">>, <<"N", "o", "n", "e">>, <<"n", "o", "n", "e">>,
   <<"N", "O", "N", "E">>, <<>>}
NotInstalled == <<"-">>

\* stdout of `pip list --format=freeze` (sep is "==") and the rows of `pip list`
\* (sep is the padding of the name column), as lines
RECURSIVE PipListLines(_, _, _)
PipListLines(names, installed, sep) ==
  IF names = <<>> THEN <<>>
  ELSE (IF installed[Head(names)] = NotInstalled THEN <<>>
        ELSE <<chars[Head(names)] \o sep \o installed[Head(names)]>>)
       \o PipListLines(Tail(names), installed, sep)

\* the first loop: the lines of the freeze listing
RECURSIVE FreezeCorrupted(_)
FreezeCorrupted(lines) ==
  IF lines = <<>> THEN <<>>
  ELSE
    \* `line` is line.strip()
    The({ IF line = <<>> THEN <<>>
           ELSE IF Contains(line, <<"=", "=">>)
           THEN LET i == CHOOSE k \in 1..(Len(line) - 1) :
                           /\ SubSeq(line, k, k + 1) = <<"=", "=">>
                           /\ \A j \in 1..(k - 1) : SubSeq(line, j, j + 1) # <<"=", "=">>
                    pkg == SubSeq(line, 1, i - 1)
                    version == SubSeq(line, i + 2, Len(line))
                IN  IF Lower(version) = <<"n", "o", "n", "e">> \/ version = <<>>
                    THEN <<Str(pkg)>> ELSE <<>>
           ELSE IF ~Contains(line, <<"@">>) THEN <<Str(line)>>
           ELSE <<>>
         : line \in {Strip(Head(lines))} })
    \o FreezeCorrupted(Tail(lines))

\* the second loop: the rows of the regular listing, added to `corrupted`
RECURSIVE TableCorrupted(_, _)
TableCorrupted(lines, corrupted) ==
  IF lines = <<>> THEN corrupted
  ELSE TableCorrupted(Tail(lines),
         The({ IF /\ Len(parts) >= 2
                  /\ Lower(parts[2]) = <<"n", "o", "n", "e">>
                  /\ Str(parts[1]) \notin Range(corrupted)
               THEN Append(corrupted, Str(parts[1])) ELSE corrupted
             : parts \in {SelectSeq(Split(Head(lines), " "), LAMBDA w : w # <<>>)} }))

\* the names passed to _force_delete_package, in order; res1 and res2 are the
\* outcomes of the two subprocess.run calls
_cleanup_corrupted_packages(installed, res1, res2) ==
  IF res1 # "ok" THEN <<>>
  ELSE IF res2 = "timeout" THEN <<>>
  ELSE IF res2 = "ok"
       THEN TableCorrupted(
              << <<"P","a","c","k","a","g","e"," ","V","e","r","s","i","o","n">>,
                 <<"-","-","-","-","-","-","-"," ","-","-","-","-","-","-","-">> >>
              \o PipListLines(ListedPackages, installed, <<" ", " ", " ">>),
              FreezeCorrupted(PipListLines(ListedPackages, installed, <<"=", "=">>)))
       ELSE FreezeCorrupted(PipListLines(ListedPackages, installed, <<"=", "=">>))

CleanupInit ==
  /\ call \in [fn : {"_cleanup_corrupted_packages"},
               installed : [Range(ListedPackages) -> ReportedVersions \cup {NotInstalled}],
               res1 : {"ok", "error", "timeout"}, res2 : {"ok", "error", "timeout"}]
  /\ ret = NotCalled
  /\ EngineUnused
  /\ ResolverUnused

CallCleanupCorruptedPackages ==
  /\ call.fn = "_cleanup_corrupted_packages"
  /\ ~ret.done
  /\ ret' = Returned(_cleanup_corrupted_packages(call.installed, call.res1, call.res2))
  /\ UNCHANGED <<call, engineVars, resolverVars>>

SpecCleanup == CleanupInit /\ [][CallCleanupCorruptedPackages]_vars

\* the packages the freeze listing shows with an empty version or with 'none'
\* in any letter case
CorruptedListed(installed) ==
  {p \in Range(ListedPackages) :
     installed[p] # NotInstalled /\ (installed[p] = <<>> \/ Lower(installed[p]) = <<"n", "o", "n", "e">>)}

\* C34: the corrupted-package cleanup passes to _force_delete_package exactly
\* the packages that pip lists with an empty version or with 'none' in any
\* letter case, each of them once, and no package with a well-formed version.
C34_ForceDeletesCorrupted ==
  (call.fn = "_cleanup_corrupted_packages" /\ ret.done /\ call.res1 = "ok") =>
    /\ Range(ret.value) = CorruptedListed(call.installed)
    /\ Len(ret.value) = Cardinality(Range(ret.value))

----------------------------------------------------------------------------
(* _cleanup_orphaned_dist_info: the metadata directories of comfyui_nuvu *)
(* that have no RECORD file                                              *)

IsNuvuDistInfo(item) ==
  StartsWith(chars[item], chars["comfyui_nuvu-"]) /\ EndsWith(chars[item], chars[".dist-info"])

\* dirs: the listings of the site-packages directories, in the order of
\* site.getsitepackages() + [site.getusersitepackages()]; record: the entries of
\* each that hold a RECORD file; locked: the entries for which shutil.rmtree
\* raises.  The value is the listings afterwards.
_cleanup_orphaned_dist_info(dirs, record, locked) ==
  IF \A i \in 1..Len(dirs) : \A item \in dirs[i] : ~IsNuvuDistInfo(item) THEN dirs
  ELSE The({ The({ IF Cardinality(dist_infos) <= 1 \/ dist_infos \subseteq record[sp]
                   THEN dirs
                   ELSE [dirs EXCEPT ![sp] = @ \ ((dist_infos \ record[sp]) \ locked)]
                 : dist_infos \in {{item \in dirs[sp] : IsNuvuDistInfo(item)}} })
           : sp \in {i \in 1..Len(dirs) :
                       /\ \E item \in dirs[i] : IsNuvuDistInfo(item)
                       /\ \A j \in 1..(i - 1) : \A item \in dirs[j] : ~IsNuvuDistInfo(item)} })

OrphanEntries ==
  {"comfyui_nuvu-1.0.dist-info", "comfyui_nuvu-1.1.dist-info", "comfyui_nuvu",
   "numpy-1.23.0.dist-info"}

OrphanInit ==
  /\ call \in {c \in [fn : {"_cleanup_orphaned_dist_info"},
                      dirs : [1..2 -> SUBSET OrphanEntries],
                      record : [1..2 -> SUBSET OrphanEntries],
                      locked : SUBSET {"comfyui_nuvu-1.0.dist-info"}] :
                 /\ \A i \in 1..2 : c.record[i] \subseteq c.dirs[i]
                 /\ c.dirs[2] \subseteq {"comfyui_nuvu-1.0.dist-info", "comfyui_nuvu"}}
  /\ ret = NotCalled
  /\ EngineUnused
  /\ ResolverUnused

CallCleanupOrphanedDistInfo ==
  /\ call.fn = "_cleanup_orphaned_dist_info"
  /\ ~ret.done
  /\ ret' = Returned(_cleanup_orphaned_dist_info(call.dirs, call.record, call.locked))
  /\ UNCHANGED <<call, engineVars, resolverVars>>

SpecOrphans == OrphanInit /\ [][CallCleanupOrphanedDistInfo]_vars

\* C38: the cleanup of orphaned metadata removes no comfyui_nuvu metadata
\* directory that holds a RECORD file, and a site-packages directory that held a
\* comfyui_nuvu metadata directory before the cleanup holds one after it.
C38_MetadataSurvives ==
  (ret.done /\ call.fn = "_cleanup_orphaned_dist_info") =>
    \A i \in 1..2 :
      /\ \A item \in call.record[i] : IsNuvuDistInfo(item) => item \in ret.value[i]
      /\ (\E item \in call.dirs[i] : IsNuvuDistInfo(item))
           => \E item \in ret.value[i] : IsNuvuDistInfo(item)

====
